---- MODULE Spec2Model ----
(***************************************************************************)
(* Real-time globe dashboard: the lightning (Blitzortung) and vessel       *)
(* (AISStream) ingestion pipelines.                                        *)
(*                                                                         *)
(*   server/blitzortung.ts (src/unnamed/part_001, lines 342-561)           *)
(*   server/aisstream.ts   (src/unnamed/part_001, lines  98-340)           *)
(*   server/routers.ts     (LightningStore, lines 129-150)                 *)
(*                                                                         *)
(* Node runs every handler to completion, so each handler is one action.   *)
(* Sockets and timers are the environment: a socket is a slot whose        *)
(* readyState the `ws` library drives, a timer is a pending setTimeout.    *)
(***************************************************************************)
EXTENDS Integers, Sequences, FiniteSets, TLC

\* ------------------------------------------------------------------ bounds
\* Socket objects that can be alive (not yet CLOSED) at once.
MaxSockets == 3
\* Connection attempts (currentServerIndex++) explored per feed.
MaxAttempts == 4

\* Capacity of the stores (maxSize = 500 in both classes), reduced so that the
\* model reaches overflow.
maxSize == 3
\* Calls of LightningStore.add explored.
MaxAdds == maxSize + 2
\* Strikes the upstream delivers while subscribers come and go.
MaxFrames == 3
\* Strikes replayed to a new subscriber (getRecent(50)), reduced with maxSize.
HistoryN == 1
\* Strikes the lightning.recent query returns (getRecent(100)), reduced with
\* maxSize.
RecentN == 2
\* Subscriber sessions (responses) that can be open at once, per feed.
MaxClients == 2
\* Ids used in direct calls of the registry functions.
MaxIds == 4
\* One travel leg of the astronaut, in ticks of the 100 ms interval
\* (travelDurationRef: at least 8000 ms).
Duration == 4
\* Ticks of the astronaut's interval a behaviour observes.
MaxTime == 8
\* Fuel gained or lost between two observations of the fuel level (the
\* 1-second ticks move it by less than 0.07).
FuelStep == 5
\* Quiz answers submitted in a behaviour.
MaxSubmissions == 2
\* Ticks of 10 s the satellite cache is observed for.
MaxSatTime == 7
\* satellites.tracked calls in a behaviour.
MaxQueries == 4

\* ------------------------------------------------------- program constants
\* `null` for blitzortungWs / aisWs / reconnectTimer.
Null == 0
\* BLITZORTUNG_SERVERS.length
NumServers == 3
\* scheduleReconnect(5000) in the lightning connector.
BlitzReconnectMs == 5000
\* scheduleReconnect(10000) in the vessel connector.
AisReconnectMs == 10000

Sockets == 1..MaxSockets
Clients == 1..MaxClients
RegistryIds == 1..MaxIds

VARIABLES
    \* lightning connector (module state of server/blitzortung.ts)
    currentServerIndex,  \* let currentServerIndex = 0
    blitzortungWs,       \* let blitzortungWs: WebSocket | null
    reconnectTimer,      \* let reconnectTimer: Timeout | null  (a timer id)
    isConnecting,        \* let isConnecting = false
    \* its environment
    sock,                \* readyState of each WebSocket object created so far
    sockUrl,             \* index into BLITZORTUNG_SERVERS each socket was created with
    sent,                \* subscription messages {a:111} sent on each socket
    timers,              \* pending setTimeout callbacks: set of [id, delay]
    crashed,             \* an exception escaped an event handler
    \* history
    attemptedWhilePending \* a call passed the guard since the pending timer was armed

VARIABLES
    \* vessel connector (module state of server/aisstream.ts)
    apiKey,              \* process.env.AISSTREAM_API_KEY is set
    aisWs,               \* let aisWs: WebSocket | null
    aisReconnectTimer,   \* let reconnectTimer: Timeout | null  (a timer id)
    aisIsConnecting,     \* let isConnecting = false
    \* its environment
    aisSock,             \* readyState of each WebSocket object created so far
    aisSent,             \* subscription messages sent on each socket
    aisTimers,           \* pending setTimeout callbacks: set of [id, delay]
    aisAttempts,         \* history: WebSocket constructions tried so far
    aisCalled            \* history: connectAISStream has been called

VARIABLES
    \* class LightningStore (server/routers.ts)
    strikes,             \* private strikes: LightningStrike[]
    total,               \* private total = 0
    \* history and observations
    added,               \* every strike passed to add, in call order
    response             \* what the last lightning.recent query returned, and the
                         \* Date.now() it read (at)

VARIABLES
    \* subscriber side of server/blitzortung.ts
    sseClients,          \* const sseClients = new Map<string, Response>(): ids in insertion order
    heartbeat,           \* per session: its setInterval is running
    reqOpen,             \* per session: req's "close" handler is registered and has not run
    \* history and observations
    out,                 \* per session: the data messages written to res, in order,
                         \* kept until the session's request closes
    lastPublish,         \* the last broadcastLightning: strike, registry before, writes
    detached,            \* per session: its request's "close" handler has run
    registryCall         \* the last direct addSSEClient / removeSSEClient call: op, id, registry before

connVars == <<currentServerIndex, blitzortungWs, reconnectTimer, isConnecting,
              sock, sockUrl, sent, timers, attemptedWhilePending>>

aisVars == <<apiKey, aisWs, aisReconnectTimer, aisIsConnecting, aisSock, aisSent,
             aisTimers, aisAttempts, aisCalled>>

storeVars == <<strikes, total, added, response>>

VARIABLES
    \* class VesselStore and subscriber side of server/aisstream.ts
    vessels,             \* private vessels = new Map<string, VesselPoint>(): values in insertion order
    aisClients,          \* const sseClients = new Map<string, Response>(): ids in insertion order
    aisHeartbeat,        \* per session: its setInterval is running
    aisReqOpen,          \* per session: req's "close" handler is registered and has not run
    \* history and observations
    updates,             \* number of vesselStore.update calls made so far
    aisOut,              \* per session: the data messages written to res, in order
    aisLastPublish       \* the last broadcastVessel: vessel, registry before, writes

sseVars == <<sseClients, heartbeat, reqOpen, out, lastPublish, detached, registryCall>>

VARIABLES
    \* observations of the decoder (decodeBlitzortung of server/blitzortung.ts)
    record,              \* the record the last observed frame was made from, if known
    frame,               \* const str = b.toString("utf8") of the last observed frame
    event                \* what decodeBlitzortung returned for it

decoderVars == <<record, frame, event>>

vesselVars == <<vessels, aisClients, aisHeartbeat, aisReqOpen, updates, aisOut, aisLastPublish>>

VARIABLES
    \* function Home (client/src/pages/Home.tsx)
    showAstronautPanel,  \* const [showAstronautPanel, setShowAstronautPanel]
    showQuizModal,       \* const [showQuizModal, setShowQuizModal]
    quizOpenedRef,       \* const quizOpenedRef = useRef(false)
    autoOpens,           \* history: times the effect opened the modal since fuel
                         \* was last seen not critical
    \* function useFuel
    fuel,                \* fuelRef.current
    fuelState,           \* const [state, setState]: fuel, isLow, isCritical
    \* function QuizModal (state of the mounted modal) and quiz.grade
    phase,               \* const [phase, setPhase]
    difficulty,          \* const [difficulty, setDifficulty]
    inflight,            \* quiz.grade calls not yet answered: difficulty, and
                         \* whether the modal that made the call is still mounted
    geminiKey,           \* process.env.GEMINI_API_KEY: "unread" until first read
    submitted,           \* history: handleSubmit calls that reached the server call
    lastGrade,           \* history: the grading answered last
    \* function useAstronaut; times in ticks of its 100 ms interval
    now,                 \* Date.now()
    travelStartRef,      \* const travelStartRef
    elapsedBeforePauseRef, \* const elapsedBeforePauseRef
    pausedRef,           \* const pausedRef
    leg,                 \* legs completed: fixes startRef and destRef
    progress             \* state.progress, as elapsed ticks of travelDurationRef

homeVars == <<showAstronautPanel, showQuizModal, quizOpenedRef, autoOpens, fuel, fuelState>>

quizVars == <<phase, difficulty, inflight, geminiKey, submitted, lastGrade>>

astronautVars == <<now, travelStartRef, elapsedBeforePauseRef, pausedRef, leg, progress>>

gameVars == <<homeVars, astronautVars, quizVars>>

VARIABLES
    \* satellites (module state of server/routers.ts and its upstream)
    n2yoKey,             \* process.env.N2YO_API_KEY: "unread" until first read
    satCache,            \* let satCache: { data, ts } | null
    satNow,              \* Date.now(), in ticks of 10 s
    satCalls,            \* fetchAllSatellites calls waiting for the upstream
    upstream,            \* history: rounds of upstream requests issued
    satQueries,          \* history: satellites.tracked calls made
    satResponse          \* what the satellites.tracked call answered last returned

satVars == <<n2yoKey, satCache, satNow, satCalls, upstream, satQueries, satResponse>>

vars == <<connVars, aisVars, crashed, storeVars, sseVars, vesselVars, decoderVars, gameVars, satVars>>

\* ---------------------------------------------------------------- timers
TimerIds(tm) == {t.id : t \in tm}

\* setTimeout(cb, delay): a fresh handle, one more pending callback.
setTimeout(tm, delay) ==
    LET id == CHOOSE i \in 1..(Cardinality(tm) + 1) :
                  /\ i \notin TimerIds(tm)
                  /\ \A j \in 1..(Cardinality(tm) + 1) : j \notin TimerIds(tm) => i <= j
    IN  [handle |-> id, pending |-> tm \cup {[id |-> id, delay |-> delay]}]

\* clearTimeout(handle): the callback will not run.
clearTimeout(tm, handle) == {t \in tm : t.id # handle}

\* ------------------------------------------------------ lightning connector
\* The connector's state as one value, so that handlers compose.
Conn ==
    [currentServerIndex |-> currentServerIndex, blitzortungWs |-> blitzortungWs,
     reconnectTimer |-> reconnectTimer, isConnecting |-> isConnecting,
     sock |-> sock, sockUrl |-> sockUrl, sent |-> sent, timers |-> timers,
     crashed |-> crashed, attemptedWhilePending |-> attemptedWhilePending]

SetConn(c) ==
    /\ currentServerIndex' = c.currentServerIndex
    /\ blitzortungWs' = c.blitzortungWs
    /\ reconnectTimer' = c.reconnectTimer
    /\ isConnecting' = c.isConnecting
    /\ sock' = c.sock
    /\ sockUrl' = c.sockUrl
    /\ sent' = c.sent
    /\ timers' = c.timers
    /\ crashed' = c.crashed
    /\ attemptedWhilePending' = c.attemptedWhilePending
    /\ UNCHANGED <<aisVars, storeVars, sseVars, vesselVars, decoderVars, gameVars, satVars>>

\* new WebSocket(url) takes the first slot whose object is gone (CLOSED).
FreeSockets(c) == {s \in Sockets : c.sock[s] = "CLOSED"}
NewSocket(c) == CHOOSE s \in FreeSockets(c) : \A u \in FreeSockets(c) : s <= u

\* function scheduleReconnect(delay)
scheduleReconnect(c, delay) ==
    LET cleared == IF c.reconnectTimer # Null
                   THEN clearTimeout(c.timers, c.reconnectTimer)
                   ELSE c.timers
        t == setTimeout(cleared, delay)
    IN  [c EXCEPT !.timers = t.pending, !.reconnectTimer = t.handle,
                  !.attemptedWhilePending = FALSE]

\* The guard of connectBlitzortung: already connecting, or connected.
ConnectIsNoop(c) ==
    \/ c.isConnecting
    \/ (c.blitzortungWs # Null /\ c.sock[c.blitzortungWs] = "OPEN")

\* Mutant of connectBlitzortung: the endpoint is picked after the increment.
connectBlitzortung_indexAfter(c, ctorThrows) ==
    IF c.isConnecting \/ (c.blitzortungWs # Null /\ c.sock[c.blitzortungWs] = "OPEN")
    THEN c
    ELSE LET c1 == [c EXCEPT !.isConnecting = TRUE, !.currentServerIndex = @ + 1,
                             !.attemptedWhilePending = @ \/ c.reconnectTimer # Null]
         IN  IF ctorThrows
             THEN scheduleReconnect([c1 EXCEPT !.isConnecting = FALSE], BlitzReconnectMs)
             ELSE LET s == CHOOSE f \in FreeSockets(c) : \A u \in FreeSockets(c) : f <= u
                  IN  [c1 EXCEPT !.blitzortungWs = s, !.sock[s] = "CONNECTING",
                                 !.sockUrl[s] = c1.currentServerIndex % NumServers,
                                 !.sent[s] = 0]

\* export function connectBlitzortung(); ctorThrows: new WebSocket(...) threw.
connectBlitzortung(c, ctorThrows) ==
    IF ConnectIsNoop(c) THEN c
    ELSE LET c1 == [c EXCEPT !.isConnecting = TRUE, !.currentServerIndex = @ + 1,
                             !.attemptedWhilePending = @ \/ c.reconnectTimer # Null]
         IN  IF ctorThrows
             THEN scheduleReconnect([c1 EXCEPT !.isConnecting = FALSE], BlitzReconnectMs)
             ELSE LET s == NewSocket(c)
                  IN  [c1 EXCEPT !.blitzortungWs = s, !.sock[s] = "CONNECTING",
                                 !.sockUrl[s] = c.currentServerIndex % NumServers,
                                 !.sent[s] = 0]

\* blitzortungWs.on("open"): the send goes to the module variable, not to the
\* socket that opened; on null or on a socket that is not OPEN it throws.
onOpen(c) ==
    LET c1 == [c EXCEPT !.isConnecting = FALSE]
    IN  IF c1.blitzortungWs # Null /\ c1.sock[c1.blitzortungWs] = "OPEN"
        THEN [c1 EXCEPT !.sent[c1.blitzortungWs] = @ + 1]
        ELSE [c1 EXCEPT !.crashed = TRUE]

\* blitzortungWs.on("error")
onError(c) == [c EXCEPT !.isConnecting = FALSE]

\* Mutant of onClose: no reconnect is scheduled.
onClose_noReconnect(c) ==
    [c EXCEPT !.isConnecting = FALSE, !.blitzortungWs = Null]

\* Mutant of onClose: the reconnect uses the other feed's delay.
onClose_otherDelay(c) ==
    scheduleReconnect([c EXCEPT !.isConnecting = FALSE, !.blitzortungWs = Null],
                      AisReconnectMs)

\* blitzortungWs.on("close")
onClose(c) ==
    scheduleReconnect([c EXCEPT !.isConnecting = FALSE, !.blitzortungWs = Null],
                      BlitzReconnectMs)

\* Mutant of getBlitzortungStatus: no case for readyState CLOSING.
getBlitzortungStatus_noClosing ==
    IF blitzortungWs = Null THEN "disconnected"
    ELSE CASE sock[blitzortungWs] = "CONNECTING" -> "connecting"
           [] sock[blitzortungWs] = "OPEN" -> "connected"
           [] sock[blitzortungWs] = "CLOSED" -> "disconnected"
           [] OTHER -> "unknown"

\* export function getBlitzortungStatus()
getBlitzortungStatus ==
    IF blitzortungWs = Null THEN "disconnected"
    ELSE CASE sock[blitzortungWs] = "CONNECTING" -> "connecting"
           [] sock[blitzortungWs] = "OPEN" -> "connected"
           [] sock[blitzortungWs] = "CLOSING" -> "closing"
           [] sock[blitzortungWs] = "CLOSED" -> "disconnected"
           [] OTHER -> "unknown"

\* --------------------------------------------------------------- actions
\* A call passes the guard only while attempts remain to be explored, and a
\* constructor that cannot get a socket slot throws.
CanCall(c, ctorThrows) ==
    /\ ~ConnectIsNoop(c) => c.currentServerIndex < MaxAttempts
    /\ ctorThrows \/ FreeSockets(c) # {}

\* connectBlitzortung() called from outside the module (it is exported).
Connect ==
    /\ ~crashed
    /\ \E ctorThrows \in BOOLEAN :
          /\ CanCall(Conn, ctorThrows)
          /\ SetConn(connectBlitzortung(Conn, ctorThrows))

\* The server's one call at startup.
Startup ==
    /\ ~crashed
    /\ currentServerIndex = 0
    /\ \E ctorThrows \in BOOLEAN :
          /\ CanCall(Conn, ctorThrows)
          /\ SetConn(connectBlitzortung(Conn, ctorThrows))

\* The handshake succeeded: readyState OPEN, then "open" is emitted.
SocketOpen ==
    /\ ~crashed
    /\ \E s \in Sockets :
          /\ sock[s] = "CONNECTING"
          /\ SetConn(onOpen([Conn EXCEPT !.sock[s] = "OPEN"]))

\* The handshake failed: ws emits "error" and "close" back to back.
SocketFail ==
    /\ ~crashed
    /\ \E s \in Sockets :
          /\ sock[s] = "CONNECTING"
          /\ SetConn(onClose(onError([Conn EXCEPT !.sock[s] = "CLOSED"])))

\* An error on an open socket: readyState CLOSING, "error" is emitted, and
\* "close" follows once the TCP socket is gone.
SocketError ==
    /\ ~crashed
    /\ \E s \in Sockets :
          /\ sock[s] = "OPEN"
          /\ SetConn(onError([Conn EXCEPT !.sock[s] = "CLOSING"]))

\* The socket is gone: readyState CLOSED, "close" is emitted.
SocketClose ==
    /\ ~crashed
    /\ \E s \in Sockets :
          /\ sock[s] \in {"OPEN", "CLOSING"}
          /\ SetConn(onClose([Conn EXCEPT !.sock[s] = "CLOSED"]))

\* The reconnect timer's callback: reconnectTimer = null; connectBlitzortung().
TimerFire ==
    /\ ~crashed
    /\ \E t \in timers, ctorThrows \in BOOLEAN :
          LET c == [Conn EXCEPT !.timers = timers \ {t}, !.reconnectTimer = Null,
                                !.attemptedWhilePending = FALSE]
          IN  /\ CanCall(c, ctorThrows)
              /\ SetConn(connectBlitzortung(c, ctorThrows))

\* --------------------------------------------------------- vessel connector
\* The vessel connector's state as one value (field names as in aisstream.ts).
AisConn ==
    [apiKey |-> apiKey, aisWs |-> aisWs, reconnectTimer |-> aisReconnectTimer,
     isConnecting |-> aisIsConnecting, sock |-> aisSock, sent |-> aisSent,
     timers |-> aisTimers, attempts |-> aisAttempts, called |-> aisCalled,
     crashed |-> crashed]

SetAisConn(c) ==
    /\ apiKey' = c.apiKey
    /\ aisWs' = c.aisWs
    /\ aisReconnectTimer' = c.reconnectTimer
    /\ aisIsConnecting' = c.isConnecting
    /\ aisSock' = c.sock
    /\ aisSent' = c.sent
    /\ aisTimers' = c.timers
    /\ aisAttempts' = c.attempts
    /\ aisCalled' = c.called
    /\ crashed' = c.crashed
    /\ UNCHANGED <<connVars, storeVars, sseVars, vesselVars, decoderVars, gameVars, satVars>>

\* function scheduleReconnect(delay) of aisstream.ts
aisScheduleReconnect(c, delay) ==
    LET cleared == IF c.reconnectTimer # Null
                   THEN clearTimeout(c.timers, c.reconnectTimer)
                   ELSE c.timers
        t == setTimeout(cleared, delay)
    IN  [c EXCEPT !.timers = t.pending, !.reconnectTimer = t.handle]

\* The guards of connectAISStream: no key, already connecting, or connected.
AisConnectIsNoop(c) ==
    \/ ~c.apiKey
    \/ c.isConnecting
    \/ (c.aisWs # Null /\ c.sock[c.aisWs] = "OPEN")

\* Mutant of connectAISStream: the key is not looked at.
connectAISStream_noKeyCheck(c, ctorThrows) ==
    LET c0 == [c EXCEPT !.called = TRUE]
    IN  IF c.isConnecting \/ (c.aisWs # Null /\ c.sock[c.aisWs] = "OPEN") THEN c0
        ELSE LET c1 == [c0 EXCEPT !.isConnecting = TRUE, !.attempts = @ + 1]
             IN  IF ctorThrows
                 THEN aisScheduleReconnect([c1 EXCEPT !.isConnecting = FALSE], AisReconnectMs)
                 ELSE LET s == NewSocket(c)
                      IN  [c1 EXCEPT !.aisWs = s, !.sock[s] = "CONNECTING", !.sent[s] = 0]

\* export function connectAISStream(); ctorThrows: new WebSocket(...) threw.
connectAISStream(c, ctorThrows) ==
    IF ~c.apiKey THEN [c EXCEPT !.called = TRUE]
    ELSE IF c.isConnecting \/ (c.aisWs # Null /\ c.sock[c.aisWs] = "OPEN")
    THEN [c EXCEPT !.called = TRUE]
    ELSE LET c1 == [c EXCEPT !.called = TRUE, !.isConnecting = TRUE, !.attempts = @ + 1]
         IN  IF ctorThrows
             THEN aisScheduleReconnect([c1 EXCEPT !.isConnecting = FALSE], AisReconnectMs)
             ELSE LET s == NewSocket(c)
                  IN  [c1 EXCEPT !.aisWs = s, !.sock[s] = "CONNECTING", !.sent[s] = 0]

\* aisWs.on("open"): the send goes to the module variable aisWs.
aisOnOpen(c) ==
    LET c1 == [c EXCEPT !.isConnecting = FALSE]
    IN  IF c1.aisWs # Null /\ c1.sock[c1.aisWs] = "OPEN"
        THEN [c1 EXCEPT !.sent[c1.aisWs] = @ + 1]
        ELSE [c1 EXCEPT !.crashed = TRUE]

\* aisWs.on("error")
aisOnError(c) == [c EXCEPT !.isConnecting = FALSE]

\* aisWs.on("close")
aisOnClose(c) ==
    aisScheduleReconnect([c EXCEPT !.isConnecting = FALSE, !.aisWs = Null],
                         AisReconnectMs)

\* export function getAISStreamStatus()
getAISStreamStatus ==
    IF ~apiKey THEN "disabled"
    ELSE IF aisWs = Null THEN "disconnected"
    ELSE IF aisSock[aisWs] = "OPEN" THEN "connected" ELSE "disconnected"

AisCanCall(c, ctorThrows) ==
    /\ ~AisConnectIsNoop(c) => c.attempts < MaxAttempts
    /\ ctorThrows \/ FreeSockets(c) # {}

\* connectAISStream() called from outside the module (it is exported).
AisConnect ==
    /\ ~crashed
    /\ \E ctorThrows \in BOOLEAN :
          /\ AisCanCall(AisConn, ctorThrows)
          /\ SetAisConn(connectAISStream(AisConn, ctorThrows))

\* The server's one call at startup.
AisStartup ==
    /\ ~crashed
    /\ aisAttempts = 0
    /\ \E ctorThrows \in BOOLEAN :
          /\ AisCanCall(AisConn, ctorThrows)
          /\ SetAisConn(connectAISStream(AisConn, ctorThrows))

AisSocketOpen ==
    /\ ~crashed
    /\ \E s \in Sockets :
          /\ aisSock[s] = "CONNECTING"
          /\ SetAisConn(aisOnOpen([AisConn EXCEPT !.sock[s] = "OPEN"]))

AisSocketFail ==
    /\ ~crashed
    /\ \E s \in Sockets :
          /\ aisSock[s] = "CONNECTING"
          /\ SetAisConn(aisOnClose(aisOnError([AisConn EXCEPT !.sock[s] = "CLOSED"])))

AisSocketError ==
    /\ ~crashed
    /\ \E s \in Sockets :
          /\ aisSock[s] = "OPEN"
          /\ SetAisConn(aisOnError([AisConn EXCEPT !.sock[s] = "CLOSING"]))

AisSocketClose ==
    /\ ~crashed
    /\ \E s \in Sockets :
          /\ aisSock[s] \in {"OPEN", "CLOSING"}
          /\ SetAisConn(aisOnClose([AisConn EXCEPT !.sock[s] = "CLOSED"]))

\* The reconnect timer's callback: reconnectTimer = null; connectAISStream().
AisTimerFire ==
    /\ ~crashed
    /\ \E t \in aisTimers, ctorThrows \in BOOLEAN :
          LET c == [AisConn EXCEPT !.timers = aisTimers \ {t}, !.reconnectTimer = Null]
          IN  /\ AisCanCall(c, ctorThrows)
              /\ SetAisConn(connectAISStream(c, ctorThrows))

\* ------------------------------------------------------- Blitzortung decoder
\* A frame is the sequence of code points of b.toString("utf8"): an ASCII
\* character stands for itself, a code point above U+007F is written U+xxxx.
ColonSub == "U+0106"
CommaSub == "U+0119"
NoiseChars == {"U+0108", "U+010A", "U+0115"}
NonAscii == {ColonSub, CommaSub} \cup NoiseChars

DigitChars == <<"0", "1", "2", "3", "4", "5", "6", "7", "8", "9">>
IsDigit(ch) == \E d \in 1..10 : DigitChars[d] = ch
DigitValue(ch) == (CHOOSE d \in 1..10 : DigitChars[d] = ch) - 1
\* The character classes \d and [-\d.] of the three patterns.
ClassDigit == {DigitChars[d] : d \in 1..10}
ClassNumber == ClassDigit \cup {"-", "."}

\* str.replace(/from/g, to) for a one-character pattern.
replaceAll(str, from, to) ==
    [i \in 1..Len(str) |-> IF str[i] = from THEN to ELSE str[i]]

\* str.replace(/[^\x00-\x7F]/g, "")
stripNonAscii(str) == SelectSeq(str, LAMBDA ch : ch \notin NonAscii)

\* Number of characters of `class` that str holds from position i on.
RunLen(str, i, class) ==
    LET ends == {j \in (i - 1)..Len(str) : \A k \in i..j : str[k] \in class}
    IN  (CHOOSE j \in ends : \A e \in ends : e <= j) - i + 1

\* Where the capture group starts if key, an optional quote and a colon stand
\* at position j; 0 if they do not.
AfterKey(str, j, key) ==
    LET p == j + Len(key)
    IN  IF ~(p - 1 <= Len(str) /\ \A k \in 1..Len(key) : str[j + k - 1] = key[k]) THEN 0
        ELSE IF p <= Len(str) /\ str[p] = ":" THEN p + 1
        ELSE IF p + 1 <= Len(str) /\ str[p] = "\"" /\ str[p + 1] = ":" THEN p + 2
        ELSE 0

\* decoded.match(/"?key"?:(class+)/): the capture group of the leftmost
\* match, or <<>> when there is none (null).
match(str, key, class) ==
    LET hits == {j \in 1..Len(str) :
                    /\ AfterKey(str, j, key) # 0
                    /\ RunLen(str, AfterKey(str, j, key), class) > 0}
    IN  IF hits = {} THEN <<>>
        ELSE LET j == CHOOSE h \in hits : \A g \in hits : h <= g
                 q == AfterKey(str, j, key)
             IN  SubSeq(str, q, q + RunLen(str, q, class) - 1)

RECURSIVE DigitsToInt(_)
DigitsToInt(ds) ==
    IF ds = <<>> THEN 0
    ELSE 10 * DigitsToInt(SubSeq(ds, 1, Len(ds) - 1)) + DigitValue(ds[Len(ds)])

RECURSIVE Pow10(_)
Pow10(k) == IF k = 0 THEN 1 ELSE 10 * Pow10(k - 1)

\* A JavaScript number read by parseFloat: NaN, or num / den.
NaN == [nan |-> TRUE, num |-> 0, den |-> 1]
Number(num, den) == [nan |-> FALSE, num |-> num, den |-> den]

\* parseFloat(text) for text over [-\d.]: the longest prefix that is a
\* decimal literal, NaN if that prefix has no digit.
parseFloat(text) ==
    LET neg == Len(text) > 0 /\ text[1] = "-"
        i == IF neg THEN 2 ELSE 1
        intLen == RunLen(text, i, ClassDigit)
        dot == i + intLen
        hasDot == dot <= Len(text) /\ text[dot] = "."
        fracLen == IF hasDot THEN RunLen(text, dot + 1, ClassDigit) ELSE 0
        digits == SubSeq(text, i, i + intLen - 1) \o SubSeq(text, dot + 1, dot + fracLen)
        value == DigitsToInt(digits)
    IN  IF intLen + fracLen = 0 THEN NaN
        ELSE Number(IF neg THEN -value ELSE value, Pow10(fracLen))

\* a < n and a > n for a parsed number a and an integer n; false on NaN.
NumLess(a, n) == ~a.nan /\ a.num < n * a.den
NumGreater(a, n) == ~a.nan /\ a.num > n * a.den

\* Timestamps exceed the checker's integers: a natural number is kept as its
\* decimal digits without leading zeros, and the arithmetic below works on
\* digits.
stripZeros(text) ==
    LET zeros == RunLen(text, 1, {"0"})
    IN  IF zeros = Len(text) THEN <<"0">> ELSE SubSeq(text, zeros + 1, Len(text))

Digits(ns) == [i \in 1..Len(ns) |-> DigitChars[ns[i] + 1]]

\* a < b
DecLess(a, b) ==
    \/ Len(a) < Len(b)
    \/ /\ Len(a) = Len(b)
       /\ \E i \in 1..Len(a) : /\ DigitValue(a[i]) < DigitValue(b[i])
                               /\ \A j \in 1..(i - 1) : a[j] = b[j]

DecOdd(a) == DigitValue(a[Len(a)]) % 2 = 1

\* floor(a / 2)
DecHalf(a) ==
    stripZeros([i \in 1..Len(a) |->
        DigitChars[(((IF i > 1 THEN DigitValue(a[i - 1]) % 2 ELSE 0) * 10
                    + DigitValue(a[i])) \div 2) + 1]])

\* 2 * a
DecDouble(a) ==
    LET carry(i) == IF i <= Len(a) /\ DigitValue(a[i]) >= 5 THEN 1 ELSE 0
        low == [i \in 1..Len(a) |->
                   DigitChars[((2 * DigitValue(a[i]) + carry(i + 1)) % 10) + 1]]
    IN  IF carry(1) = 1 THEN <<"1">> \o low ELSE stripZeros(low)

\* a + 1
DecSucc(a) ==
    LET keep == {j \in 0..Len(a) : \A k \in (j + 1)..Len(a) : a[k] = "9"}
        j0 == CHOOSE j \in keep : \A e \in keep : j <= e
        low == [i \in 1..Len(a) |->
                   IF i < j0 THEN a[i]
                   ELSE IF i = j0 THEN DigitChars[DigitValue(a[i]) + 2]
                   ELSE "0"]
    IN  IF j0 = 0 THEN <<"1">> \o low ELSE low

\* a * 2^e and floor(a / 2^e)
RECURSIVE DecShiftLeft(_, _)
DecShiftLeft(a, e) ==
    IF e = 0 \/ a = <<"0">> THEN a ELSE DecShiftLeft(DecDouble(a), e - 1)

RECURSIVE DecShiftRight(_, _)
DecShiftRight(a, e) ==
    IF e = 0 \/ a = <<"0">> THEN a ELSE DecShiftRight(DecHalf(a), e - 1)

\* The significand of a JavaScript number has 53 bits.
TwoPow52 == Digits(<<4, 5, 0, 3, 5, 9, 9, 6, 2, 7, 3, 7, 0, 4, 9, 6>>)
TwoPow53 == DecDouble(TwoPow52)

\* The JavaScript number nearest to m * 2^e, ties to the even significand;
\* guard and sticky are the bits already shifted out of m.
RECURSIVE roundToDouble(_, _, _, _)
roundToDouble(m, guard, sticky, e) ==
    IF DecLess(m, TwoPow53)
    THEN DecShiftLeft(IF guard /\ (sticky \/ DecOdd(m)) THEN DecSucc(m) ELSE m, e)
    ELSE roundToDouble(DecHalf(m), DecOdd(m), sticky \/ guard, e + 1)

\* parseInt(text, 10) for text over \d: the number nearest to the digits'
\* value.
parseInt(text) == roundToDouble(stripZeros(text), FALSE, FALSE, 0)

\* rawTime > 1e15; 1e15 is a one and fifteen zeros.
IsNanoseconds(rawTime) ==
    \/ Len(rawTime) > 16
    \/ /\ Len(rawTime) = 16
       /\ ~(rawTime[1] = "1" /\ \A k \in 2..16 : rawTime[k] = "0")

\* floor(a / 10^6)
DecDivMillion(a) ==
    IF Len(a) <= 6 THEN <<"0">> ELSE SubSeq(a, 1, Len(a) - 6)

\* a * 2^p for the least p with floor(a * 2^p / 10^6) >= 2^52, and that p:
\* the quotient a / 1e6 then has its last significand bit at 2^-p.
RECURSIVE scaleQuotient(_, _)
scaleQuotient(a, p) ==
    IF ~DecLess(DecDivMillion(a), TwoPow52) THEN [scaled |-> a, shift |-> p]
    ELSE scaleQuotient(DecDouble(a), p + 1)

\* Math.floor(t / 1e6) for 1e15 < t < 2^53 * 1e6: the division rounds the
\* quotient to the nearest number, ties to even, and the floor is taken of
\* the rounded quotient.
floorDivMillion(t) ==
    LET sq == scaleQuotient(t, 0)
        quot == DecDivMillion(sq.scaled)
        rest == DigitsToInt(SubSeq(sq.scaled, Len(sq.scaled) - 5, Len(sq.scaled)))
        up == rest > 500000 \/ (rest = 500000 /\ DecOdd(quot))
    IN  DecShiftRight(IF up THEN DecSucc(quot) ELSE quot, sq.shift)

\* function decodeBlitzortung(b): the strike's fields, or <<>> for null.
decodeBlitzortung(b) ==
    LET decoded == stripNonAscii(replaceAll(replaceAll(b, ColonSub, ":"), CommaSub, ","))
        timeMatch == match(decoded, <<"t", "i", "m", "e">>, ClassDigit)
        latMatch == match(decoded, <<"l", "a", "t">>, ClassNumber)
        lonMatch == match(decoded, <<"l", "o", "n">>, ClassNumber)
    IN  IF timeMatch = <<>> \/ latMatch = <<>> \/ lonMatch = <<>> THEN <<>>
        ELSE LET rawTime == parseInt(timeMatch)
                 lat == parseFloat(latMatch)
                 lon == parseFloat(lonMatch)
             IN  IF \/ NumLess(lat, -90) \/ NumGreater(lat, 90)
                    \/ NumLess(lon, -180) \/ NumGreater(lon, 180)
                 THEN <<>>
                 ELSE [lat |-> lat, lon |-> lon,
                       time |-> IF IsNanoseconds(rawTime)
                                THEN floorDivMillion(rawTime) ELSE rawTime]

\* {"time":1700000000000123000,"lat":35.1,"lon":139.6} on the wire: noise
\* inside the time digits, the colon after "lat" and the comma before "lon"
\* substituted.
FrameStrike ==
    <<"{", "\"", "t", "i", "m", "e", "\"", ":",
      "1", "7", "0", "0", "U+0108", "0", "0", "0", "0", "0", "0", "0", "0", "0",
      "1", "2", "U+010A", "3", "0", "0", "0", ",",
      "\"", "l", "a", "t", "\"", "U+0106", "3", "5", ".", "1", "U+0119",
      "\"", "l", "o", "n", "\"", ":", "1", "3", "9", ".", "6", "}">>

\* A strike whose latitude is out of range.
FrameOutOfRange ==
    <<"{", "\"", "t", "i", "m", "e", "\"", ":", "1", "7", ",",
      "\"", "l", "a", "t", "\"", ":", "9", "5", ",",
      "\"", "l", "o", "n", "\"", ":", "1", "0", "}">>

\* A frame that carries no strike.
FrameNoLon ==
    <<"{", "\"", "t", "i", "m", "e", "\"", ":", "1", "7", ",",
      "\"", "l", "a", "t", "\"", ":", "-", "5", ".", "2", "5", "}">>

\* Frames the upstream sends in the model, and what each decodes to.
Frames == {FrameStrike, FrameOutOfRange, FrameNoLon}
Decoded == [b \in Frames |-> decodeBlitzortung(b)]

\* What the upstream encodes: a record's number as the decimal literal of its
\* JSON text, for num / 10^k.
RECURSIVE IntToDigits(_)
IntToDigits(n) ==
    IF n < 10 THEN <<DigitChars[n + 1]>>
    ELSE Append(IntToDigits(n \div 10), DigitChars[(n % 10) + 1])

stringify(v) ==
    LET abs == IF v.num < 0 THEN -v.num ELSE v.num
        k == CHOOSE e \in 0..9 : Pow10(e) = v.den
        frac == IntToDigits(abs % v.den)
        zeros == [i \in 1..(k - Len(frac)) |-> "0"]
    IN  (IF v.num < 0 THEN <<"-">> ELSE <<>>) \o IntToDigits(abs \div v.den)
        \o (IF k = 0 THEN <<>> ELSE <<".">> \o zeros \o frac)

\* Timestamps on the wire: milliseconds, the boundary 1e15 and its successor,
\* nanoseconds that are and are not JavaScript numbers.
WireTimes ==
    {Digits(<<1, 7>>),
     Digits(<<1, 7, 0, 0, 0, 0, 0, 0, 0, 0, 0, 0, 0>>),
     Digits(<<1, 0, 0, 0, 0, 0, 0, 0, 0, 0, 0, 0, 0, 0, 0, 0>>),
     Digits(<<1, 0, 0, 0, 0, 0, 0, 0, 0, 0, 0, 0, 0, 0, 0, 1>>),
     Digits(<<1, 7, 0, 0, 0, 0, 0, 0, 0, 0, 0, 0, 0, 1, 2, 3, 0, 0, 0>>),
     Digits(<<1, 7, 0, 0, 0, 0, 0, 0, 0, 0, 0, 0, 0, 9, 9, 9, 9, 3, 6>>),
     Digits(<<1, 7, 0, 0, 0, 0, 0, 0, 0, 0, 0, 0, 0, 9, 9, 9, 9, 9, 9>>)}

ValidLats == {Number(351, 10), Number(-525, 100), Number(90, 1), Number(-90, 1),
              Number(0, 1)}
ValidLons == {Number(1396, 10), Number(-180, 1), Number(10, 1)}
\* A field of a frame is the value the sender meant and the text it wrote:
\* numbers in and out of range, and text over [-\d.] that is no number.
WireLats ==
    {[value |-> v, text |-> stringify(v)] : v \in ValidLats \cup {Number(905, 10)}}
    \cup {[value |-> NaN, text |-> <<"-">>]}
WireLons ==
    {[value |-> v, text |-> stringify(v)] : v \in ValidLons \cup {Number(1801, 10)}}
    \cup {[value |-> NaN, text |-> <<".">>]}

RECURSIVE Flatten(_)
Flatten(seqs) == IF seqs = <<>> THEN <<>> ELSE Head(seqs) \o Flatten(Tail(seqs))

\* The frame made of tokens: the delimiters in `subst` replaced by their
\* substitute, a noise character after the first character of the tokens in
\* `noisy`.
Obfuscate(tokens, subst, noisy) ==
    Flatten([k \in 1..Len(tokens) |->
        LET tok == tokens[k]
        IN  IF k \in subst
            THEN (IF tok = <<":">> THEN <<ColonSub>> ELSE <<CommaSub>>)
            ELSE IF k \in noisy /\ Len(tok) >= 2
            THEN <<tok[1], "U+0108">> \o Tail(tok)
            ELSE tok])

\* Records the upstream sends to the decoder, with the delimiters it
\* substitutes and the tokens it puts noise in.
WireRecords ==
    [time : WireTimes, lat : WireLats, lon : WireLons,
     subst : {{}, {7, 9}, {3, 5, 7, 9, 11}},
     noisy : {{}, {4}, {8, 12}, {2, 6, 10}, {2, 4, 6, 8, 10, 12}}]

\* The frame of record r: the tokens of {"time":T,"lat":LAT,"lon":LON}, whose
\* delimiters are tokens 3, 5, 7, 9 and 11.
Wire(r) ==
    Obfuscate(<< <<"{">>, <<"\"", "t", "i", "m", "e", "\"">>, <<":">>, r.time, <<",">>,
                 <<"\"", "l", "a", "t", "\"">>, <<":">>, r.lat.text, <<",">>,
                 <<"\"", "l", "o", "n", "\"">>, <<":">>, r.lon.text, <<"}">> >>,
              r.subst, r.noisy)

\* What each of these frames decodes to.
WireDecoded == [r \in WireRecords |-> decodeBlitzortung(Wire(r))]

\* ---------------------------------------------------------- LightningStore
\* Array.prototype.slice(start): a negative start counts from the end, and
\* -0 is 0.
slice(arr, start) ==
    LET len == Len(arr)
        k == IF start < 0
             THEN (IF len + start > 0 THEN len + start ELSE 0)
             ELSE (IF start < len THEN start ELSE len)
    IN  SubSeq(arr, k + 1, len)

\* The store as one value.
Store == [strikes |-> strikes, total |-> total]

\* Mutant of add: trimming keeps the oldest entries.
add_keepOldest(st, strike) ==
    LET pushed == Append(st.strikes, strike)
    IN  [strikes |-> IF Len(pushed) > maxSize THEN SubSeq(pushed, 1, maxSize) ELSE pushed,
         total |-> st.total + 1]

\* Mutant of add: the counter follows the buffer.
add_totalIsLength(st, strike) ==
    LET pushed == Append(st.strikes, strike)
        kept == IF Len(pushed) > maxSize THEN slice(pushed, -maxSize) ELSE pushed
    IN  [strikes |-> kept, total |-> Len(kept)]

\* Mutant of add: the strike is pushed and counted twice.
add_twice(st, strike) ==
    LET pushed == Append(Append(st.strikes, strike), strike)
    IN  [strikes |-> IF Len(pushed) > maxSize THEN slice(pushed, -maxSize) ELSE pushed,
         total |-> st.total + 2]

\* LightningStore.add(strike)
add(st, strike) ==
    LET pushed == Append(st.strikes, strike)
    IN  [strikes |-> IF Len(pushed) > maxSize THEN slice(pushed, -maxSize) ELSE pushed,
         total |-> st.total + 1]

\* Mutant of getRecent: the first n strikes instead of the last n.
getRecent_fromStart(st, n) ==
    SubSeq(st.strikes, 1, IF n < Len(st.strikes) THEN n ELSE Len(st.strikes))

\* LightningStore.getRecent(n)
getRecent(st, n) == slice(st.strikes, -n)

\* Mutant of getTotal: the size of the buffer.
getTotal_bufferSize(st) == Len(st.strikes)

\* LightningStore.getTotal()
getTotal(st) == st.total

\* LightningStore.getLastMinute(), with Date.now() = nowMs
getLastMinute(st, nowMs) ==
    LET oneMinuteAgo == nowMs - 60000
    IN  Len(SelectSeq(st.strikes, LAMBDA s : s.time > oneMinuteAgo))

\* Strikes a caller passes to add directly (as the store's tests do); the
\* id tells the calls apart.
TestTimes == {0, 120000}
TestStrike(t) ==
    [lat |-> Number(356, 10), lon |-> Number(1397, 10),
     time |-> t, id |-> Len(added) + 1]

\* store.add(strike)
StoreAdd ==
    /\ Len(added) < MaxAdds
    /\ \E t \in TestTimes :
          LET st == add(Store, TestStrike(t))
          IN  /\ strikes' = st.strikes
              /\ total' = st.total
              /\ added' = Append(added, TestStrike(t))
    /\ UNCHANGED <<decoderVars, gameVars, satVars, connVars, aisVars, crashed, response, sseVars, vesselVars>>

\* Date.now() at a query: a minute before, at, and a minute after the later
\* of TestTimes.
NowTimes == {60000, 120000, 180000}

\* appRouter.lightning.recent, called when Date.now() is nowMs.
LightningRecent ==
    /\ \E nowMs \in NowTimes :
          response' = [strikes |-> getRecent(Store, RecentN), total |-> getTotal(Store),
                       lastMinute |-> getLastMinute(Store, nowMs), at |-> nowMs]
    /\ UNCHANGED <<decoderVars, gameVars, satVars, connVars, aisVars, crashed, strikes, total, added, sseVars, vesselVars>>

\* ------------------------------------------------- lightning SSE registry
Range(f) == {f[i] : i \in DOMAIN f}

\* Mutant of addSSEClient: the registry is a list that is pushed to.
addSSEClient_push(reg, id) == Append(reg, id)

\* export function addSSEClient(id, res): Map.set keeps an existing key's place.
addSSEClient(reg, id) == IF id \in Range(reg) THEN reg ELSE Append(reg, id)

\* Mutant of removeSSEClient: the entry stays.
removeSSEClient_keep(reg, id) == reg

\* export function removeSSEClient(id)
removeSSEClient(reg, id) == SelectSeq(reg, LAMBDA x : x # id)

\* Mutant of broadcastLightning: one try around the loop, so the first
\* failed write ends it.
broadcastLightning_abortOnThrow(reg, failing) ==
    LET firstBad == {i \in 1..Len(reg) : reg[i] \in failing}
        stop == IF firstBad = {} THEN Len(reg)
                ELSE CHOOSE i \in firstBad : \A j \in firstBad : i <= j
        toDelete == IF firstBad = {} THEN {} ELSE {reg[stop]}
    IN  [writes |-> [i \in 1..stop |->
                        [id |-> reg[i], ok |-> reg[i] \notin failing, registry |-> reg]],
         sseClients |-> SelectSeq(reg, LAMBDA id : id \notin toDelete)]

\* Mutant of broadcastLightning: failed clients are not deleted.
broadcastLightning_noDelete(reg, failing) ==
    [writes |-> [i \in 1..Len(reg) |->
                    [id |-> reg[i], ok |-> reg[i] \notin failing, registry |-> reg]],
     sseClients |-> reg]

\* function broadcastLightning(strike), on registry reg, when res.write throws
\* for the clients in `failing`: the writes attempted in order (with the
\* registry as it is at each write) and the registry afterwards.
broadcastLightning(reg, failing) ==
    LET toDelete == SelectSeq(reg, LAMBDA id : id \in failing)
    IN  [writes |-> [i \in 1..Len(reg) |->
                        [id |-> reg[i], ok |-> reg[i] \notin failing, registry |-> reg]],
         sseClients |-> SelectSeq(reg, LAMBDA id : id \notin Range(toDelete))]

\* The data messages of the stream.
ConnectedMsg(c) == [type |-> "connected", clientId |-> c]
HistoryMsg(recent) == [type |-> "history", strikes |-> recent]
\* Mutant of the live event: every event is written as the first one.
StrikeMsg_stale(strike) == [strike EXCEPT !.id = 1]

\* A live event is the strike itself, JSON.stringify(strike): it has no type.
StrikeMsg(strike) == strike
IsStrike(m) == "type" \notin DOMAIN m
IsHistory(m) == "type" \in DOMAIN m /\ m.type = "history"

\* Mutant of the message handler: a frame that carries no strike is counted.
onMessage_countsDropped(b) ==
    /\ ~crashed
    /\ \E s \in Sockets : sock[s] = "OPEN"
    /\ Decoded[b] = <<>>
    /\ total' = total + 1
    /\ UNCHANGED <<strikes, added, response, sseVars>>
    /\ UNCHANGED <<connVars, aisVars, crashed, vesselVars>>

\* blitzortungWs.on("message"): frame b arrives on an open socket; res.write
\* throws for the clients in `failing`.
onMessage(b) ==
    /\ ~crashed
    /\ \E s \in Sockets : sock[s] = "OPEN"
    /\ \E failing \in SUBSET Range(sseClients) :
          LET decoded == Decoded[b]
              strike == [lat |-> decoded.lat, lon |-> decoded.lon,
                         time |-> decoded.time, id |-> Len(added) + 1]
              st == add(Store, strike)
              bc == broadcastLightning(sseClients, failing)
          IN  IF decoded = <<>>
              THEN failing = {} /\ UNCHANGED <<storeVars, sseVars>>
              ELSE /\ Len(added) < MaxFrames
                   /\ strikes' = st.strikes
                   /\ total' = st.total
                   /\ added' = Append(added, strike)
                   /\ sseClients' = bc.sseClients
                   /\ out' = [c \in Clients |->
                                 IF \E i \in 1..Len(bc.writes) :
                                        bc.writes[i].id = c /\ bc.writes[i].ok
                                 THEN Append(out[c], StrikeMsg(strike))
                                 ELSE out[c]]
                   /\ lastPublish' = [strike |-> strike, before |-> sseClients,
                                      writes |-> bc.writes]
                   /\ UNCHANGED <<response, heartbeat, reqOpen, detached, registryCall>>
    /\ UNCHANGED <<connVars, aisVars, crashed, vesselVars>>

Message == \E b \in Frames : onMessage(b) /\ UNCHANGED <<decoderVars, gameVars, satVars>>

\* The same handler with the frame and its decoding observed.
Receive ==
    \E b \in Frames :
        /\ onMessage(b)
        /\ frame' = b
        /\ event' = Decoded[b]
        /\ UNCHANGED <<record, gameVars, satVars>>

\* decodeBlitzortung applied to the frame made from a record. The function
\* keeps nothing between calls, so a behaviour observes one call.
Decode ==
    \E r \in WireRecords :
        /\ frame = <<>>
        /\ record' = [time |-> r.time, lat |-> r.lat, lon |-> r.lon]
        /\ frame' = Wire(r)
        /\ event' = WireDecoded[r]
        /\ UNCHANGED <<connVars, aisVars, crashed, storeVars, sseVars, vesselVars, gameVars, satVars>>

\* Mutant of handleLightningSSE: the history is written before the
\* acknowledgement.
HandleLightningSSE_historyFirst ==
    /\ ~crashed
    /\ \E c \in Clients :
          LET recent == getRecent(Store, HistoryN)
          IN  /\ ~reqOpen[c] /\ ~heartbeat[c] /\ c \notin Range(sseClients)
              /\ out' = [out EXCEPT ![c] = IF Len(recent) > 0
                                           THEN <<HistoryMsg(recent), ConnectedMsg(c)>>
                                           ELSE <<ConnectedMsg(c)>>]
              /\ detached' = [detached EXCEPT ![c] = FALSE]
              /\ sseClients' = addSSEClient(sseClients, c)
              /\ heartbeat' = [heartbeat EXCEPT ![c] = TRUE]
              /\ reqOpen' = [reqOpen EXCEPT ![c] = TRUE]
    /\ UNCHANGED <<decoderVars, gameVars, satVars, connVars, aisVars, crashed, storeVars, lastPublish, registryCall,
                   vesselVars>>

\* export function handleLightningSSE(req, res) for a new session c; throwAt
\* says which res.write throws (0: none, 1: "connected", 2: "history").
HandleLightningSSE ==
    /\ ~crashed
    /\ \E c \in Clients, throwAt \in 0..2 :
          LET recent == getRecent(Store, HistoryN)
              written == IF throwAt = 1 THEN <<>>
                         ELSE IF Len(recent) > 0 /\ throwAt # 2
                         THEN <<ConnectedMsg(c), HistoryMsg(recent)>>
                         ELSE <<ConnectedMsg(c)>>
              threw == throwAt = 1 \/ (throwAt = 2 /\ Len(recent) > 0)
          IN  /\ ~reqOpen[c] /\ ~heartbeat[c] /\ c \notin Range(sseClients)
              /\ throwAt = 2 => Len(recent) > 0
              /\ out' = [out EXCEPT ![c] = written]
              /\ detached' = [detached EXCEPT ![c] = FALSE]
              /\ IF threw
                 THEN UNCHANGED <<sseClients, heartbeat, reqOpen>>
                 ELSE /\ sseClients' = addSSEClient(sseClients, c)
                      /\ heartbeat' = [heartbeat EXCEPT ![c] = TRUE]
                      /\ reqOpen' = [reqOpen EXCEPT ![c] = TRUE]
    /\ UNCHANGED <<decoderVars, gameVars, satVars, connVars, aisVars, crashed, storeVars, lastPublish, registryCall,
                   vesselVars>>

\* The heartbeat interval's callback; a heartbeat is a comment line, not a
\* data message. When res.write throws the interval clears itself.
Heartbeat ==
    /\ ~crashed
    /\ \E c \in Clients, throws \in BOOLEAN :
          /\ heartbeat[c]
          /\ IF throws
             THEN /\ heartbeat' = [heartbeat EXCEPT ![c] = FALSE]
                  /\ sseClients' = removeSSEClient(sseClients, c)
             ELSE UNCHANGED <<heartbeat, sseClients>>
    /\ UNCHANGED <<decoderVars, gameVars, satVars, connVars, aisVars, crashed, storeVars, reqOpen, out, lastPublish,
                   detached, registryCall, vesselVars>>

\* req.on("close"): the client went away.
ClientClose ==
    /\ ~crashed
    /\ \E c \in Clients :
          /\ reqOpen[c]
          /\ heartbeat' = [heartbeat EXCEPT ![c] = FALSE]
          /\ sseClients' = removeSSEClient(sseClients, c)
          /\ reqOpen' = [reqOpen EXCEPT ![c] = FALSE]
          /\ out' = [out EXCEPT ![c] = <<>>]
          /\ detached' = [detached EXCEPT ![c] = TRUE]
    /\ UNCHANGED <<decoderVars, gameVars, satVars, connVars, aisVars, crashed, storeVars, lastPublish, registryCall,
                   vesselVars>>

\* addSSEClient(id, res) and removeSSEClient(id) called directly (both are
\* exported), for any id, registered or not; an id stands for the pair of the
\* id and its one response handle.
Attach ==
    /\ ~crashed
    /\ \E id \in RegistryIds :
          /\ sseClients' = addSSEClient(sseClients, id)
          /\ registryCall' = [op |-> "attach", id |-> id, before |-> sseClients]
    /\ UNCHANGED <<decoderVars, gameVars, satVars, connVars, aisVars, crashed, storeVars, heartbeat, reqOpen, out,
                   lastPublish, detached, vesselVars>>

Detach ==
    /\ ~crashed
    /\ \E id \in RegistryIds :
          /\ sseClients' = removeSSEClient(sseClients, id)
          /\ registryCall' = [op |-> "detach", id |-> id, before |-> sseClients]
    /\ UNCHANGED <<decoderVars, gameVars, satVars, connVars, aisVars, crashed, storeVars, heartbeat, reqOpen, out,
                   lastPublish, detached, vesselVars>>

\* ------------------------------------------------------------- VesselStore
\* A string is the sequence of its characters; "" is <<>>. An optional JSON
\* field is <<>> when absent and <<value>> when present.
Keys(vs) == {vs[i].mmsi : i \in 1..Len(vs)}

\* Map.set(key, value): a new key goes last, an existing key keeps its place.
mapSet(vs, vessel) ==
    IF vessel.mmsi \in Keys(vs)
    THEN [i \in 1..Len(vs) |-> IF vs[i].mmsi = vessel.mmsi THEN vessel ELSE vs[i]]
    ELSE Append(vs, vessel)

\* VesselStore.update(vessel); `if (firstKey)` is false for the key "".
update(vs, vessel) ==
    LET set == mapSet(vs, vessel)
    IN  IF Len(set) > maxSize
        THEN LET firstKey == set[1].mmsi
             IN  IF firstKey # <<>> THEN Tail(set) ELSE set
        ELSE set

\* VesselStore.getAll()
getAll(vs) == vs

\* function broadcastVessel(vessel), as broadcastLightning.
broadcastVessel(reg, failing) ==
    LET toDelete == SelectSeq(reg, LAMBDA id : id \in failing)
    IN  [writes |-> [i \in 1..Len(reg) |->
                        [id |-> reg[i], ok |-> reg[i] \notin failing, registry |-> reg]],
         sseClients |-> SelectSeq(reg, LAMBDA id : id \notin Range(toDelete))]

\* What JSON.parse(str) gives for the frames of the model: the fields the
\* handler reads, or NotJson when it throws.
Absent == <<>>
NotJson == [parseThrows |-> TRUE]
PositionReport(mmsi, userId, lat, lon) ==
    [MessageType |-> "PositionReport", MMSI |-> mmsi, UserID |-> userId,
     ShipName |-> <<<<"E", "V", "A">>>>, Latitude |-> lat, Longitude |-> lon,
     MetaLatitude |-> Absent, MetaLongitude |-> Absent,
     Cog |-> <<Number(90, 1)>>, Sog |-> Absent, TrueHeading |-> Absent]

\* String(k) for the MMSI numbers of the model.
MmsiString(k) == <<DigitChars[k + 1]>>

VesselFrames ==
    {PositionReport(<<MmsiString(k)>>, Absent, <<Number(485, 10)>>, <<Number(-42, 10)>>) :
        k \in 1..(maxSize + 1)}
    \cup {PositionReport(Absent, Absent, <<Number(485, 10)>>, <<Number(-42, 10)>>),
          PositionReport(<<<<>>>>, <<<<"7">>>>, <<Number(485, 10)>>, <<Number(-42, 10)>>),
          PositionReport(Absent, <<<<"8">>>>, <<Number(0, 1)>>, <<Number(50, 1)>>),
          PositionReport(<<<<"9">>>>, Absent, <<Number(515, 10)>>, <<Number(0, 1)>>),
          PositionReport(<<<<"9">>>>, Absent, <<Number(5, 1000)>>, <<Number(-5, 1000)>>),
          PositionReport(<<<<"9">>>>, Absent, <<Number(91, 1)>>, <<Number(10, 1)>>),
          [PositionReport(<<<<"9">>>>, Absent, <<Number(10, 1)>>, <<Number(10, 1)>>)
              EXCEPT !.MessageType = "ShipStaticData"],
          NotJson}

\* a ?? b on optional fields.
Coalesce(a, b) == IF a # Absent THEN a ELSE b

\* !x for an optional number: undefined, 0 and NaN are falsy.
Falsy(x) == x = Absent \/ x[1].nan \/ x[1].num = 0

\* Math.abs(x) < 0.01
NearZero(x) == ~x.nan /\ 100 * x.num < x.den /\ 100 * x.num > -x.den

\* The VesselPoint the message handler builds from a frame, or <<>> when it
\* returns early or JSON.parse throws.
vesselOf(msg) ==
    IF msg = NotJson THEN <<>>
    ELSE IF msg.MessageType # "PositionReport" THEN <<>>
    ELSE LET lat == Coalesce(msg.Latitude, msg.MetaLatitude)
             lon == Coalesce(msg.Longitude, msg.MetaLongitude)
             mmsi == Coalesce(msg.MMSI, Coalesce(msg.UserID, <<<<>>>>))[1]
         IN  IF Falsy(lat) \/ Falsy(lon) \/ mmsi = <<>> THEN <<>>
             ELSE IF \/ NumLess(lat[1], -90) \/ NumGreater(lat[1], 90)
                     \/ NumLess(lon[1], -180) \/ NumGreater(lon[1], 180) THEN <<>>
             ELSE IF NearZero(lat[1]) /\ NearZero(lon[1]) THEN <<>>
             ELSE [mmsi |-> mmsi,
                   name |-> IF msg.ShipName # Absent /\ msg.ShipName[1] # <<>>
                            THEN msg.ShipName[1] ELSE mmsi,
                   lat |-> lat[1], lon |-> lon[1],
                   cog |-> Coalesce(msg.Cog, <<Number(0, 1)>>)[1],
                   sog |-> Coalesce(msg.Sog, <<Number(0, 1)>>)[1],
                   heading |-> Coalesce(msg.TrueHeading,
                                        Coalesce(msg.Cog, <<Number(0, 1)>>))[1]]

VesselOf == [msg \in VesselFrames |-> vesselOf(msg)]

\* A live event is the vessel itself, JSON.stringify(vessel).
VesselMsg(vessel) == vessel
SnapshotMsg(vs) == [type |-> "snapshot", vessels |-> vs]

\* aisWs.on("message"): frame msg arrives on an open socket; res.write throws
\* for the clients in `failing`.
aisOnMessage(msg) ==
    /\ ~crashed
    /\ \E s \in Sockets : aisSock[s] = "OPEN"
    /\ \E failing \in SUBSET Range(aisClients) :
          LET vessel == VesselOf[msg]
              bc == broadcastVessel(aisClients, failing)
          IN  IF vessel = <<>>
              THEN failing = {} /\ UNCHANGED vesselVars
              ELSE /\ updates < MaxAdds
                   /\ vessels' = update(vessels, vessel)
                   /\ updates' = updates + 1
                   /\ aisClients' = bc.sseClients
                   /\ aisOut' = [c \in Clients |->
                                    IF \E i \in 1..Len(bc.writes) :
                                           bc.writes[i].id = c /\ bc.writes[i].ok
                                    THEN Append(aisOut[c], VesselMsg(vessel))
                                    ELSE aisOut[c]]
                   /\ aisLastPublish' = [vessel |-> vessel, before |-> aisClients,
                                         writes |-> bc.writes]
                   /\ UNCHANGED <<aisHeartbeat, aisReqOpen>>
    /\ UNCHANGED <<gameVars, satVars, connVars, aisVars, crashed, storeVars, sseVars>>

AisMessage == \E msg \in VesselFrames : aisOnMessage(msg) /\ UNCHANGED decoderVars

\* The same handler with the frame and the vessel built from it observed.
AisReceive ==
    \E msg \in VesselFrames :
        /\ aisOnMessage(msg)
        /\ frame' = msg
        /\ event' = VesselOf[msg]
        /\ UNCHANGED record

\* Vessels a caller passes to update directly; the store takes any mmsi
\* string, the empty one included.
TestMmsi == {<<>>} \cup {MmsiString(k) : k \in 1..(maxSize + 1)}
TestVessel(mmsi) ==
    [mmsi |-> mmsi, name |-> mmsi, lat |-> Number(485, 10), lon |-> Number(-42, 10),
     cog |-> Number(0, 1), sog |-> Number(0, 1), heading |-> Number(0, 1)]

\* vesselStore.update(vessel)
VesselUpdate ==
    /\ updates < MaxAdds
    /\ \E mmsi \in TestMmsi : vessels' = update(vessels, TestVessel(mmsi))
    /\ updates' = updates + 1
    /\ UNCHANGED <<decoderVars, gameVars, satVars, connVars, aisVars, crashed, storeVars, sseVars,
                   aisClients, aisHeartbeat, aisReqOpen, aisOut, aisLastPublish>>

\* export function handleVesselSSE(req, res) for a new session c; throwAt
\* says which res.write throws (0: none, 1: "connected", 2: "snapshot").
HandleVesselSSE ==
    /\ ~crashed
    /\ \E c \in Clients, throwAt \in 0..2 :
          LET all == getAll(vessels)
              written == IF throwAt = 1 THEN <<>>
                         ELSE IF Len(all) > 0 /\ throwAt # 2
                         THEN <<ConnectedMsg(c), SnapshotMsg(all)>>
                         ELSE <<ConnectedMsg(c)>>
              threw == throwAt = 1 \/ (throwAt = 2 /\ Len(all) > 0)
          IN  /\ ~aisReqOpen[c] /\ ~aisHeartbeat[c] /\ c \notin Range(aisClients)
              /\ throwAt = 2 => Len(all) > 0
              /\ aisOut' = [aisOut EXCEPT ![c] = written]
              /\ IF threw
                 THEN UNCHANGED <<aisClients, aisHeartbeat, aisReqOpen>>
                 ELSE /\ aisClients' = addSSEClient(aisClients, c)
                      /\ aisHeartbeat' = [aisHeartbeat EXCEPT ![c] = TRUE]
                      /\ aisReqOpen' = [aisReqOpen EXCEPT ![c] = TRUE]
    /\ UNCHANGED <<decoderVars, gameVars, satVars, connVars, aisVars, crashed, storeVars, sseVars, vessels, updates, aisLastPublish>>

\* The vessel session's heartbeat interval callback.
AisHeartbeat ==
    /\ ~crashed
    /\ \E c \in Clients, throws \in BOOLEAN :
          /\ aisHeartbeat[c]
          /\ IF throws
             THEN /\ aisHeartbeat' = [aisHeartbeat EXCEPT ![c] = FALSE]
                  /\ aisClients' = removeSSEClient(aisClients, c)
             ELSE UNCHANGED <<aisHeartbeat, aisClients>>
    /\ UNCHANGED <<decoderVars, gameVars, satVars, connVars, aisVars, crashed, storeVars, sseVars,
                   vessels, updates, aisReqOpen, aisOut, aisLastPublish>>

\* The vessel session's req.on("close").
AisClientClose ==
    /\ ~crashed
    /\ \E c \in Clients :
          /\ aisReqOpen[c]
          /\ aisHeartbeat' = [aisHeartbeat EXCEPT ![c] = FALSE]
          /\ aisClients' = removeSSEClient(aisClients, c)
          /\ aisReqOpen' = [aisReqOpen EXCEPT ![c] = FALSE]
          /\ aisOut' = [aisOut EXCEPT ![c] = <<>>]
    /\ UNCHANGED <<decoderVars, gameVars, satVars, connVars, aisVars, crashed, storeVars, sseVars,
                   vessels, updates, aisLastPublish>>

\* ---------------------------------------------------------------- satellites
\* SAT_CACHE_TTL_MS = 30_000, in ticks of 10 s
SatCacheTtl == 3
\* PINNED_SATELLITES.length
PinnedCount == 3

NoCache == [data |-> <<>>, ts |-> -1]
NoResponse == [available |-> FALSE, satellites |-> <<>>, threw |-> FALSE]

\* What one round of upstream requests can merge to: nothing (every request
\* failed), the pinned satellites only (/above failed), or more. A list is
\* known by the time it was fetched and its length.
Fetched(t) == {[at |-> t, size |-> n] : n \in {0, PinnedCount, PinnedCount + 1}}

\* Mutant of cacheFresh: a cache of exactly the TTL's age is still served.
cacheFresh_inclusive(cache, t) == cache # NoCache /\ t - cache.ts <= SatCacheTtl

\* fetchAllSatellites: satCache && Date.now() - satCache.ts < SAT_CACHE_TTL_MS
cacheFresh(cache, t) == cache # NoCache /\ t - cache.ts < SatCacheTtl

\* What process.env.N2YO_API_KEY can be read as.
N2yoKeyReads == IF n2yoKey = "unread" THEN BOOLEAN ELSE {n2yoKey = "set"}

\* Mutant of satellitesTracked: the key is not looked at.
satellitesTracked_noKeyCheck(key) ==
    IF cacheFresh(satCache, satNow)
    THEN /\ satResponse' = [available |-> TRUE, satellites |-> satCache.data, threw |-> FALSE]
         /\ UNCHANGED <<satCalls, upstream>>
    ELSE /\ satCalls' = satCalls + 1
         /\ upstream' = upstream + 1
         /\ UNCHANGED satResponse

\* appRouter.satellites.tracked up to the first await of fetchAllSatellites:
\* without the key it answers at once, with a fresh cache it answers from
\* the cache, otherwise the upstream requests are issued.
satellitesTracked(key) ==
    IF ~key
    THEN /\ satResponse' = [available |-> FALSE, satellites |-> <<>>, threw |-> FALSE]
         /\ UNCHANGED <<satCalls, upstream>>
    ELSE IF cacheFresh(satCache, satNow)
    THEN /\ satResponse' = [available |-> TRUE, satellites |-> satCache.data, threw |-> FALSE]
         /\ UNCHANGED <<satCalls, upstream>>
    ELSE /\ satCalls' = satCalls + 1
         /\ upstream' = upstream + 1
         /\ UNCHANGED satResponse

\* A client calls satellites.tracked.
SatTracked ==
    /\ satQueries < MaxQueries
    /\ satQueries' = satQueries + 1
    /\ \E key \in N2yoKeyReads :
          /\ n2yoKey' = IF key THEN "set" ELSE "unset"
          /\ satellitesTracked(key)
    /\ UNCHANGED <<satCache, satNow>>
    /\ UNCHANGED <<connVars, aisVars, crashed, storeVars, sseVars, vesselVars, decoderVars, gameVars>>

\* The upstream requests of one waiting call have settled: the lists are
\* merged, cached if they hold more than the pinned satellites, and
\* returned.
SatFetched ==
    /\ satCalls > 0
    /\ satCalls' = satCalls - 1
    /\ \E data \in Fetched(satNow) :
          /\ satCache' = IF data.size > PinnedCount
                         THEN [data |-> data, ts |-> satNow]
                         ELSE satCache
          /\ satResponse' = [available |-> TRUE, satellites |-> data, threw |-> FALSE]
    /\ UNCHANGED <<n2yoKey, satNow, upstream, satQueries>>
    /\ UNCHANGED <<connVars, aisVars, crashed, storeVars, sseVars, vesselVars, decoderVars, gameVars>>

\* Ten seconds pass.
SatTick ==
    /\ satNow < MaxSatTime
    /\ satNow' = satNow + 1
    /\ UNCHANGED <<n2yoKey, satCache, satCalls, upstream, satQueries, satResponse>>
    /\ UNCHANGED <<connVars, aisVars, crashed, storeVars, sseVars, vesselVars, decoderVars, gameVars>>

\* ------------------------------------------------------------------ the game
\* useFuel: fuelRef = useRef(85)
InitialFuel == 85
\* useFuel: Math.min(100, ...)
MaxFuel == 100
\* useFuel: isCritical: newFuel < 10
CriticalFuel == 10
\* useFuel: isLow: newFuel < 20
LowFuel == 20
\* quiz.grade without GEMINI_API_KEY: fuelReward: 20
AutoPassReward == 20
\* gradeAnswer: fuelReward of an answer that did not pass
ConsolationReward == 5

Max(a, b) == IF a > b THEN a ELSE b
Min(a, b) == IF a < b THEN a ELSE b

\* fuelState.isCritical
isCritical(f) == f < CriticalFuel

\* Mutant of setFuel: isLow is taken at the critical threshold.
setFuel_lowAtCritical(prev, newFuel) ==
    [prev EXCEPT !.fuel = newFuel, !.isLow = newFuel < CriticalFuel,
                 !.isCritical = isCritical(newFuel)]

\* The state both setState calls of useFuel produce for a new level.
setFuel(prev, newFuel) ==
    [prev EXCEPT !.fuel = newFuel, !.isLow = newFuel < LowFuel,
                 !.isCritical = isCritical(newFuel)]

\* Mutant of autoOpenQuiz: the latch is never looked at.
autoOpenQuiz_noLatch(critical, m, q) ==
    [showQuizModal |-> critical \/ m,
     quizOpenedRef |-> IF ~critical THEN FALSE ELSE TRUE]

\* Home's effect "Auto-open quiz when fuel hits critical", run after a
\* render with fuelState.isCritical = critical, modal m and latch q until
\* nothing changes: the modal and the latch it leaves.
autoOpenQuiz(critical, m, q) ==
    LET open == critical /\ ~m /\ ~q
    IN  [showQuizModal |-> IF open THEN TRUE ELSE m,
         quizOpenedRef |-> IF ~critical THEN FALSE
                           ELSE IF open THEN TRUE ELSE q]

\* Home rendered with fuel state fs and modal m, and its effects run.
Render(fs, m) ==
    /\ fuelState' = fs
    /\ showQuizModal' = autoOpenQuiz(fs.isCritical, m, quizOpenedRef).showQuizModal
    /\ quizOpenedRef' = autoOpenQuiz(fs.isCritical, m, quizOpenedRef).quizOpenedRef
    /\ autoOpens' = IF ~fs.isCritical THEN 0
                    ELSE IF showQuizModal' /\ ~m THEN autoOpens + 1 ELSE autoOpens

\* The QuizModal is unmounted: its state is gone, and the calls it made are
\* answered into an unmounted component.
Unmounted(calls) == [i \in DOMAIN calls |-> [calls[i] EXCEPT !.mounted = FALSE]]

\* The modal's state after a render that leaves the modal shown or not:
\* a modal that is mounted anew starts at "select" with no difficulty.
ModalAfter(shown, ph, d, calls) ==
    IF shown THEN [phase |-> ph, difficulty |-> d, inflight |-> calls]
    ELSE [phase |-> "select", difficulty |-> "none", inflight |-> Unmounted(calls)]

\* useFuel's interval callback. The nearest strike and satellite decide the
\* sign and size of delta; the level is clamped to 0..100.
FuelTick ==
    /\ IF showAstronautPanel
       THEN UNCHANGED <<fuel, fuelState, showQuizModal, quizOpenedRef, autoOpens>>
       ELSE \E delta \in {-FuelStep, FuelStep} :
               LET newFuel == Max(0, Min(MaxFuel, fuel + delta))
               IN  /\ fuel' = newFuel
                   /\ Render(setFuel(fuelState, newFuel), showQuizModal)
    /\ UNCHANGED <<showAstronautPanel, astronautVars, quizVars>>
    /\ UNCHANGED <<connVars, aisVars, crashed, storeVars, sseVars, vesselVars, decoderVars, satVars>>

\* FuelBar's refuel buttons: onRefuelClick. The two dialogs cover the page,
\* so the buttons are reached only while neither is shown.
RefuelClick ==
    /\ ~showQuizModal
    /\ ~showAstronautPanel
    /\ Render(fuelState, TRUE)
    /\ UNCHANGED <<fuel, showAstronautPanel, astronautVars, quizVars>>
    /\ UNCHANGED <<connVars, aisVars, crashed, storeVars, sseVars, vesselVars, decoderVars, satVars>>

\* QuizModal's onClose
QuizClose ==
    /\ showQuizModal
    /\ Render(fuelState, FALSE)
    /\ LET after == ModalAfter(FALSE, phase, difficulty, inflight)
       IN  /\ phase' = after.phase
           /\ difficulty' = after.difficulty
           /\ inflight' = after.inflight
    /\ UNCHANGED <<fuel, showAstronautPanel, astronautVars, geminiKey, submitted, lastGrade>>
    /\ UNCHANGED <<connVars, aisVars, crashed, storeVars, sseVars, vesselVars, decoderVars, satVars>>

Difficulties == {"easy", "medium", "hard"}

\* QuizModal.handleSelectDifficulty(d), with the question quiz.generate
\* answers (it answers with a stock question when generation fails).
SelectDifficulty ==
    /\ showQuizModal
    /\ phase = "select"
    /\ \E d \in Difficulties : difficulty' = d
    /\ phase' = "question"
    /\ UNCHANGED <<homeVars, astronautVars, inflight, geminiKey, submitted, lastGrade>>
    /\ UNCHANGED <<connVars, aisVars, crashed, storeVars, sseVars, vesselVars, decoderVars, satVars>>

\* QuizModal.handleSubmit up to its await: the quiz.grade call is made.
QuizSubmit ==
    /\ showQuizModal
    /\ phase = "question"
    /\ submitted < MaxSubmissions
    /\ phase' = "grading"
    /\ inflight' = Append(inflight, [difficulty |-> difficulty, mounted |-> TRUE])
    /\ submitted' = submitted + 1
    /\ UNCHANGED <<homeVars, astronautVars, difficulty, geminiKey, lastGrade>>
    /\ UNCHANGED <<connVars, aisVars, crashed, storeVars, sseVars, vesselVars, decoderVars, satVars>>

\* QuizModal.handleRetry
QuizRetry ==
    /\ showQuizModal
    /\ phase = "result"
    /\ phase' = "select"
    /\ difficulty' = "none"
    /\ UNCHANGED <<homeVars, astronautVars, inflight, geminiKey, submitted, lastGrade>>
    /\ UNCHANGED <<connVars, aisVars, crashed, storeVars, sseVars, vesselVars, decoderVars, satVars>>

\* const fuelRewards of gradeAnswer
fuelRewards == [d \in Difficulties |->
                  IF d = "easy" THEN 25 ELSE IF d = "medium" THEN 40 ELSE 60]

\* What the model answers: a verdict of passed or failed, or nothing that
\* parses (generateContent rejects, or JSON.parse throws).
Verdicts == {"passed", "failed", "throws"}

\* Mutant of gradeAnswer: every passed answer is worth the easy reward.
gradeAnswer_flat(d, verdict) ==
    IF verdict = "throws" THEN [passed |-> FALSE, fuelReward |-> 0]
    ELSE [passed |-> verdict = "passed",
          fuelReward |-> IF verdict = "passed" THEN fuelRewards["easy"]
                         ELSE ConsolationReward]

\* async function gradeAnswer(difficulty, ...), given the model's verdict
gradeAnswer(d, verdict) ==
    IF verdict = "throws" THEN [passed |-> FALSE, fuelReward |-> 0]
    ELSE [passed |-> verdict = "passed",
          fuelReward |-> IF verdict = "passed" THEN fuelRewards[d]
                         ELSE ConsolationReward]

\* appRouter.quiz.grade, with GEMINI_API_KEY set or not
quizGrade(key, d, verdict) ==
    IF ~key THEN [passed |-> TRUE, fuelReward |-> AutoPassReward]
    ELSE gradeAnswer(d, verdict)

\* Mutant of refuelFromQuiz: no cap.
refuelFromQuiz_uncapped(f, amount) == f + amount

\* useFuel.refuelFromQuiz(amount): the new level
refuelFromQuiz(f, amount) == Min(MaxFuel, f + amount)

NoGrade == [n |-> 0, difficulty |-> "none", key |-> FALSE, passed |-> FALSE, fuelReward |-> 0]

\* What process.env.GEMINI_API_KEY can be read as: anything before the
\* first read, the same value afterwards.
KeyReads == IF geminiKey = "unread" THEN BOOLEAN ELSE {geminiKey = "set"}

\* A quiz.grade call is answered and handleSubmit runs on from its await:
\* setResult, setPhase("result") and, if the answer passed,
\* onRefuel(res.fuelReward), which is Home.handleRefuel: refuelFromQuiz and
\* setShowQuizModal(false).
GradeReturn ==
    \E i \in DOMAIN inflight, key \in KeyReads, verdict \in Verdicts :
        LET call == inflight[i]
            res == quizGrade(key, call.difficulty, verdict)
            rest == [j \in 1..(Len(inflight) - 1) |->
                        IF j < i THEN inflight[j] ELSE inflight[j + 1]]
            grade == [n |-> lastGrade.n + 1, difficulty |-> call.difficulty, key |-> key,
                      passed |-> res.passed, fuelReward |-> res.fuelReward]
            newFuel == IF res.passed THEN refuelFromQuiz(fuel, res.fuelReward) ELSE fuel
            fs == IF res.passed THEN setFuel(fuelState, newFuel) ELSE fuelState
            shown == IF res.passed THEN FALSE ELSE showQuizModal
            ph == IF call.mounted THEN "result" ELSE phase
        IN  /\ geminiKey' = IF key THEN "set" ELSE "unset"
            /\ fuel' = newFuel
            /\ Render(fs, shown)
            /\ LET kept == ModalAfter(shown, ph, difficulty, rest)
                   after == IF showQuizModal' = shown THEN kept
                            ELSE [kept EXCEPT !.phase = "select", !.difficulty = "none"]
               IN  /\ phase' = after.phase
                   /\ difficulty' = after.difficulty
                   /\ inflight' = after.inflight
            /\ lastGrade' = grade
    /\ UNCHANGED <<showAstronautPanel, astronautVars, submitted>>
    /\ UNCHANGED <<connVars, aisVars, crashed, storeVars, sseVars, vesselVars, decoderVars, satVars>>

\* A quiz.grade call never answers (the request fails): mutateAsync
\* rejects and handleSubmit ends at its await.
GradeLost ==
    /\ \E i \in DOMAIN inflight :
          inflight' = [j \in 1..(Len(inflight) - 1) |->
                          IF j < i THEN inflight[j] ELSE inflight[j + 1]]
    /\ UNCHANGED <<homeVars, astronautVars, phase, difficulty, geminiKey, submitted, lastGrade>>
    /\ UNCHANGED <<connVars, aisVars, crashed, storeVars, sseVars, vesselVars, decoderVars, satVars>>

\* useAstronaut's effect on [paused], run after a render with paused = p.
pausedEffect(p) ==
    /\ pausedRef' = p
    /\ travelStartRef' = IF pausedRef /\ ~p
                         THEN now - elapsedBeforePauseRef
                         ELSE travelStartRef

\* The astronaut is clicked: setShowAstronautPanel(true), which pauses both
\* hooks.
PanelOpen ==
    /\ ~showAstronautPanel
    /\ ~showQuizModal
    /\ showAstronautPanel' = TRUE
    /\ pausedEffect(TRUE)
    /\ UNCHANGED <<showQuizModal, quizOpenedRef, autoOpens, fuel, fuelState, now, elapsedBeforePauseRef, leg,
                   progress, quizVars>>
    /\ UNCHANGED <<connVars, aisVars, crashed, storeVars, sseVars, vesselVars, decoderVars, satVars>>

\* AstronautPanel's onClose: setShowAstronautPanel(false).
PanelClose ==
    /\ showAstronautPanel
    /\ showAstronautPanel' = FALSE
    /\ pausedEffect(FALSE)
    /\ UNCHANGED <<showQuizModal, quizOpenedRef, autoOpens, fuel, fuelState, now, elapsedBeforePauseRef, leg,
                   progress, quizVars>>
    /\ UNCHANGED <<connVars, aisVars, crashed, storeVars, sseVars, vesselVars, decoderVars, satVars>>

\* useAstronaut's tick, called by its interval one tick after the last call.
\* t = Math.min(1, elapsed / duration) reaches 1 when elapsed >= Duration;
\* a new leg then starts at the destination.
AstronautTick ==
    /\ now < MaxTime
    /\ now' = now + 1
    /\ IF pausedRef
       THEN /\ elapsedBeforePauseRef' = now' - travelStartRef
            /\ UNCHANGED <<travelStartRef, leg, progress>>
       ELSE LET elapsed == now' - travelStartRef
            IN  IF elapsed >= Duration
                THEN /\ leg' = leg + 1
                     /\ travelStartRef' = now'
                     /\ elapsedBeforePauseRef' = 0
                     /\ progress' = 0
                ELSE /\ progress' = elapsed
                     /\ UNCHANGED <<travelStartRef, elapsedBeforePauseRef, leg>>
    /\ UNCHANGED <<pausedRef, homeVars, quizVars>>
    /\ UNCHANGED <<connVars, aisVars, crashed, storeVars, sseVars, vesselVars, decoderVars, satVars>>

Init ==
    /\ showAstronautPanel = FALSE
    /\ showQuizModal = FALSE
    /\ quizOpenedRef = FALSE
    /\ autoOpens = 0
    /\ fuel = InitialFuel
    /\ fuelState = [fuel |-> InitialFuel, isLow |-> FALSE, isCritical |-> FALSE]
    /\ phase = "select"
    /\ difficulty = "none"
    /\ inflight = <<>>
    /\ geminiKey = "unread"
    /\ submitted = 0
    /\ lastGrade = NoGrade
    /\ now = 0
    /\ travelStartRef = 0
    /\ elapsedBeforePauseRef = 0
    /\ pausedRef = FALSE
    /\ leg = 0
    /\ progress = 0
    /\ n2yoKey = "unread"
    /\ satCache = NoCache
    /\ satNow = 0
    /\ satCalls = 0
    /\ upstream = 0
    /\ satQueries = 0
    /\ satResponse = NoResponse
    /\ record = <<>>
    /\ frame = <<>>
    /\ event = <<>>
    /\ currentServerIndex = 0
    /\ blitzortungWs = Null
    /\ reconnectTimer = Null
    /\ isConnecting = FALSE
    /\ sock = [s \in Sockets |-> "CLOSED"]
    /\ sockUrl = [s \in Sockets |-> 0]
    /\ sent = [s \in Sockets |-> 0]
    /\ timers = {}
    /\ crashed = FALSE
    /\ attemptedWhilePending = FALSE
    /\ apiKey \in BOOLEAN
    /\ aisWs = Null
    /\ aisReconnectTimer = Null
    /\ aisIsConnecting = FALSE
    /\ aisSock = [s \in Sockets |-> "CLOSED"]
    /\ aisSent = [s \in Sockets |-> 0]
    /\ aisTimers = {}
    /\ aisAttempts = 0
    /\ aisCalled = FALSE
    /\ strikes = <<>>
    /\ total = 0
    /\ added = <<>>
    /\ response = [strikes |-> <<>>, total |-> 0, lastMinute |-> 0, at |-> 0]
    /\ sseClients = <<>>
    /\ heartbeat = [c \in Clients |-> FALSE]
    /\ reqOpen = [c \in Clients |-> FALSE]
    /\ out = [c \in Clients |-> <<>>]
    /\ lastPublish = [strike |-> <<>>, before |-> <<>>, writes |-> <<>>]
    /\ detached = [c \in Clients |-> FALSE]
    /\ registryCall = [op |-> "none", id |-> Null, before |-> <<>>]
    /\ vessels = <<>>
    /\ updates = 0
    /\ aisClients = <<>>
    /\ aisHeartbeat = [c \in Clients |-> FALSE]
    /\ aisReqOpen = [c \in Clients |-> FALSE]
    /\ aisOut = [c \in Clients |-> <<>>]
    /\ aisLastPublish = [vessel |-> <<>>, before |-> <<>>, writes |-> <<>>]

\* The lightning connector, called from anywhere at any time.
Next ==
    \/ Connect
    \/ SocketOpen
    \/ SocketFail
    \/ SocketError
    \/ SocketClose
    \/ TimerFire

Spec == Init /\ [][Next]_vars

\* Both connectors as the server runs them: one call each at startup, then
\* only their own reconnect timers call connect again.
NextFeeds ==
    \/ Startup
    \/ SocketOpen
    \/ SocketFail
    \/ SocketError
    \/ SocketClose
    \/ TimerFire
    \/ AisStartup
    \/ AisSocketOpen
    \/ AisSocketFail
    \/ AisSocketError
    \/ AisSocketClose
    \/ AisTimerFire

SpecFeeds == Init /\ [][NextFeeds]_vars

\* The vessel connector, called from anywhere at any time.
NextAis ==
    \/ AisConnect
    \/ AisSocketOpen
    \/ AisSocketFail
    \/ AisSocketError
    \/ AisSocketClose
    \/ AisTimerFire

SpecAis == Init /\ [][NextAis]_vars

\* The lightning store on its own, driven by direct calls.
NextStore ==
    \/ StoreAdd
    \/ LightningRecent

SpecStore == Init /\ [][NextStore]_vars

\* The two stores under any sequence of add and update calls.
NextStores ==
    \/ StoreAdd
    \/ VesselUpdate

SpecStores == Init /\ [][NextStores]_vars

\* The vessel store as the server fills it: from the frames of the
\* connected vessel feed.
NextVessel ==
    \/ AisStartup
    \/ AisSocketOpen
    \/ AisMessage

SpecVessel == Init /\ [][NextVessel]_vars

\* The lightning pipeline while the upstream stays connected: frames arrive,
\* subscribers come and go.
NextPipeline ==
    \/ Startup
    \/ SocketOpen
    \/ Message
    \/ HandleLightningSSE
    \/ Heartbeat
    \/ ClientClose

SpecPipeline == Init /\ [][NextPipeline]_vars

\* The astronaut's travel with the panel opened and closed at any time.
NextAstronaut ==
    \/ AstronautTick
    \/ PanelOpen
    \/ PanelClose

SpecAstronaut == Init /\ [][NextAstronaut]_vars

\* The game page without quiz answers: the astronaut travels, fuel drains
\* and is refilled by satellites, the panel and the quiz are opened and
\* closed.
NextGame ==
    \/ AstronautTick
    \/ FuelTick
    \/ PanelOpen
    \/ PanelClose
    \/ RefuelClick
    \/ QuizClose

SpecGame == Init /\ [][NextGame]_vars

\* The fuel and the quiz: fuel ticks, the modal is opened and closed,
\* answers are submitted and graded.
NextQuiz ==
    \/ FuelTick
    \/ RefuelClick
    \/ QuizClose
    \/ SelectDifficulty
    \/ QuizSubmit
    \/ QuizRetry
    \/ GradeReturn
    \/ GradeLost

SpecQuiz == Init /\ [][NextQuiz]_vars


\* The satellite query and its cache as time passes.
NextSat ==
    \/ SatTracked
    \/ SatFetched
    \/ SatTick

SpecSat == Init /\ [][NextSat]_vars

\* The lightning registry under direct calls of its two functions.
NextRegistry ==
    \/ Attach
    \/ Detach

SpecRegistry == Init /\ [][NextRegistry]_vars

\* The message handler observed frame by frame, with subscribers attached.
NextFrames ==
    \/ Startup
    \/ SocketOpen
    \/ Receive
    \/ HandleLightningSSE

SpecFrames == Init /\ [][NextFrames]_vars

\* The vessel message handler observed frame by frame.
NextVesselFrames ==
    \/ AisStartup
    \/ AisSocketOpen
    \/ AisReceive

SpecVesselFrames == Init /\ [][NextVesselFrames]_vars

\* The decoder on its own, over the frames of WireRecords.
SpecDecoder == Init /\ [][Decode]_vars


\* A socket of CLOSING state on which "close" is still to come.
ClosingSocketClose ==
    /\ ~crashed
    /\ \E s \in Sockets :
          /\ sock[s] = "CLOSING"
          /\ SetConn(onClose([Conn EXCEPT !.sock[s] = "CLOSED"]))

\* The event loop runs every due timer, and ws emits "close" after "error".
SpecLive ==
    /\ SpecFeeds
    /\ WF_vars(TimerFire)
    /\ WF_vars(ClosingSocketClose)

\* ================================================================ claims
\* Sockets holding or building an upstream connection.
LiveSockets == {s \in Sockets : sock[s] \in {"CONNECTING", "OPEN"}}
InFlight == {s \in Sockets : sock[s] = "CONNECTING"}
AisLiveSockets == {s \in Sockets : aisSock[s] \in {"CONNECTING", "OPEN"}}

\* C1: at most one upstream socket is connecting or open at any time, and no
\* connection attempt is made (currentServerIndex does not advance, no socket
\* is created) while a socket is connecting or open.
C1_SingleSocket ==
    /\ [](Cardinality(LiveSockets) <= 1)
    /\ [][LiveSockets # {} =>
            /\ currentServerIndex' = currentServerIndex
            /\ LiveSockets' \subseteq LiveSockets]_vars

\* C2: once started, a disconnected lightning connector (closed, errored or
\* failed to create its socket) makes another connection attempt, however many
\* attempts have failed before.
Disconnected == getBlitzortungStatus \in {"disconnected", "closing"}

C2_EventuallyReconnects ==
    \A k \in 1..(MaxAttempts - 1) :
        (Disconnected /\ currentServerIndex = k) ~> (currentServerIndex > k)

\* C2 witness: two attempts ended disconnected and a third one connected.
C2_Witness ==
    /\ currentServerIndex >= 3
    /\ getBlitzortungStatus = "connected"

\* Steps in which a socket's "error" resp. "close" event is handled.
ErrorStep == \E s \in Sockets : sock[s] = "OPEN" /\ sock'[s] = "CLOSING"
CloseStep == \E s \in Sockets : sock[s] # "CLOSED" /\ sock'[s] = "CLOSED"
AisErrorStep == \E s \in Sockets : aisSock[s] = "OPEN" /\ aisSock'[s] = "CLOSING"
AisCloseStep == \E s \in Sockets : aisSock[s] # "CLOSED" /\ aisSock'[s] = "CLOSED"

\* After the step the feed is disconnected with one reconnect pending.
ReconnectScheduled ==
    /\ getBlitzortungStatus' = "disconnected"
    /\ timers' = {[id |-> reconnectTimer', delay |-> BlitzReconnectMs]}
AisReconnectScheduled ==
    /\ getAISStreamStatus' = "disconnected"
    /\ aisTimers' = {[id |-> aisReconnectTimer', delay |-> AisReconnectMs]}

TimerFireStep == reconnectTimer # Null /\ reconnectTimer' = Null

C4_SingleTimer ==
    /\ [](Cardinality(timers) <= 1)
    /\ [][TimerFireStep /\ attemptedWhilePending =>
            (InFlight' = InFlight \/ InFlight = {})]_vars

\* C5 as stated: in every state the lightning store holds at most maxSize
\* strikes and the vessel store at most maxSize vessels, after any sequence
\* of add and update calls.
C5_StoresBounded ==
    /\ Len(strikes) <= maxSize
    /\ Len(vessels) <= maxSize

\* Last k elements of a sequence, in order.
LastOf(arr, k) == SubSeq(arr, Len(arr) - k + 1, Len(arr))

\* C6: once more than maxSize strikes have been added to the empty store,
\* getRecent(maxSize) is exactly the last maxSize strikes added, in the order
\* they were added, and getTotal is the number of strikes added.
C6_RecentAfterOverflow ==
    Len(added) > maxSize =>
        /\ getRecent(Store, maxSize) = LastOf(added, maxSize)
        /\ getTotal(Store) = Len(added)

\* C6 witness: maxSize + 2 strikes were added and a reader was answered with
\* the last of them.
C6_Witness ==
    /\ Len(added) = maxSize + 2
    /\ response.strikes = LastOf(added, RecentN)
    /\ response.total = maxSize + 2

\* C7 as stated: for every n >= 0 and every store state, getRecent(n) is
\* exactly the last min(n, size) strikes in insertion order.
C7_RecentIsLastN ==
    \A n \in 0..(maxSize + 1) :
        getRecent(Store, n) = LastOf(strikes, Min(n, Len(strikes)))

\* C8: getTotal never goes down, and a step changes it exactly when a strike
\* is added, by exactly 1.
C8_TotalMonotonic ==
    [][/\ getTotal(Store)' >= getTotal(Store)
       /\ getTotal(Store)' = getTotal(Store) + (Len(added') - Len(added))
       /\ Len(added') - Len(added) \in {0, 1}]_vars

\* C8 witness: the store has evicted, readers were answered, and getTotal is
\* the number of adds.
C8_Witness ==
    /\ Len(added) = maxSize + 1
    /\ Len(strikes) = maxSize
    /\ total = maxSize + 1
    /\ response.total = maxSize + 1
    /\ response.lastMinute > 0

\* A step in which a strike is published.
PublishStep == lastPublish' # lastPublish

\* C9: one publish attempts exactly one write to every subscriber that was
\* registered when it began, and to nobody else, whether or not writes fail;
\* the registry is as it was at the start when each write is attempted.
C9_OneWriteEach ==
    [][PublishStep =>
         LET w == lastPublish'.writes
         IN  /\ lastPublish'.before = sseClients
             /\ \A c \in Range(sseClients) :
                    Cardinality({i \in 1..Len(w) : w[i].id = c}) = 1
             /\ \A i \in 1..Len(w) :
                    /\ w[i].id \in Range(sseClients)
                    /\ w[i].registry = sseClients]_vars

\* C9 witness: a publish wrote to two subscribers; the first write failed,
\* the second succeeded.
C9_Witness ==
    /\ Len(lastPublish.writes) = 2
    /\ ~lastPublish.writes[1].ok
    /\ lastPublish.writes[2].ok

\* C10: in a publish, a subscriber whose write fails is out of the registry
\* when the publish ends and receives nothing; every other registered
\* subscriber stays registered and receives the strike; a subscriber that is
\* not registered receives nothing.
C10_FailedRemoved ==
    [][PublishStep =>
         LET w == lastPublish'.writes
             failed == {w[i].id : i \in {j \in 1..Len(w) : ~w[j].ok}}
         IN  \A c \in Clients :
                IF c \in Range(sseClients) /\ c \notin failed
                THEN /\ c \in Range(sseClients')
                     /\ out'[c] = Append(out[c], StrikeMsg(lastPublish'.strike))
                ELSE /\ c \notin Range(sseClients')
                     /\ out'[c] = out[c]]_vars

\* Number of strikes a session has received.
StrikeCount(c) == Len(SelectSeq(out[c], IsStrike))

\* C10 witness: a session dropped by a failed publish write (its request is
\* still open and its heartbeat still runs) missed the last publish, which
\* another session received after already receiving an earlier one.
C10_Witness ==
    \E c, d \in Clients :
        /\ reqOpen[c] /\ heartbeat[c] /\ c \notin Range(sseClients)
        /\ c \notin Range(lastPublish.before)
        /\ d \in Range(lastPublish.before) /\ d \in Range(sseClients)
        /\ StrikeCount(d) >= StrikeCount(c) + 2
        /\ out[d][Len(out[d])] = StrikeMsg(lastPublish.strike)

\* C11: no step crashes the process or leaves an id twice in the registry, and
\* a publish attempts no write to, and delivers nothing to, a session whose
\* close handler ran before the publish began.
C11_NoWriteAfterDetach ==
    /\ [](~crashed /\ Cardinality(Range(sseClients)) = Len(sseClients))
    /\ [][PublishStep =>
            \A c \in Clients :
                detached[c] =>
                    /\ out'[c] = out[c]
                    /\ \A i \in 1..Len(lastPublish'.writes) :
                           lastPublish'.writes[i].id # c]_vars

\* C11 witness: one session has detached, and the last of at least two
\* publishes wrote to another session, which has received every strike.
C11_Witness ==
    \E c, d \in Clients :
        /\ detached[c] /\ c \notin Range(lastPublish.before)
        /\ d \in Range(lastPublish.before)
        /\ total >= 2 /\ StrikeCount(d) = total
        /\ out[d][Len(out[d])] = StrikeMsg(lastPublish.strike)

\* A step in which session c is set up: its close handler is registered.
AttachStep(c) == ~reqOpen[c] /\ reqOpen'[c]

\* The messages of an open session's stream from position k on are strikes.
OnlyStrikesFrom(c, k) == \A i \in k..Len(out[c]) : IsStrike(out[c][i])

\* C12 as stated: a new session's stream begins with one acknowledgement and
\* one history message, whatever the store holds, it is registered only after
\* both were written, and everything after them is a live event.
C12_AckThenHistory ==
    /\ [][\A c \in Clients :
            AttachStep(c) =>
                /\ out'[c] = <<ConnectedMsg(c), HistoryMsg(getRecent(Store, HistoryN))>>
                /\ c \notin Range(sseClients) /\ c \in Range(sseClients')]_vars
    /\ [](\A c \in Clients : reqOpen[c] => OnlyStrikesFrom(c, 3))

\* C12 amended: a new session's stream begins with one acknowledgement, then
\* one history message if the store holds a strike and none if it is empty;
\* it is registered only after these were written, and everything after them
\* is a live event.
C12_AckThenHistoryIfAny ==
    /\ [][\A c \in Clients :
            AttachStep(c) =>
                /\ out'[c] = IF Len(strikes) > 0
                             THEN <<ConnectedMsg(c), HistoryMsg(getRecent(Store, HistoryN))>>
                             ELSE <<ConnectedMsg(c)>>
                /\ c \notin Range(sseClients) /\ c \in Range(sseClients')]_vars
    /\ [](\A c \in Clients :
            reqOpen[c] =>
                /\ out[c][1] = ConnectedMsg(c)
                /\ IF Len(out[c]) >= 2 /\ IsHistory(out[c][2])
                   THEN OnlyStrikesFrom(c, 3) ELSE OnlyStrikesFrom(c, 2))

\* C12 witness: one session attached to the empty store and has received a
\* live event right after its acknowledgement; another attached later and
\* has received acknowledgement, history and a live event.
C12_Witness ==
    \E c, d \in Clients :
        /\ reqOpen[c] /\ Len(out[c]) >= 2 /\ IsStrike(out[c][2])
        /\ reqOpen[d] /\ Len(out[d]) >= 3 /\ IsHistory(out[d][2])
        /\ IsStrike(out[d][3])

\* Ids of the strikes of a history message.
HistoryIds(m) == {m.strikes[i].id : i \in 1..Len(m.strikes)}

C14_ClosedSessionGone ==
    \A c \in Clients :
        detached[c] =>
            /\ c \notin Range(sseClients)
            /\ ~heartbeat[c]
            /\ ~reqOpen[c]

\* C14 witness: a session that was registered at the last publish has closed
\* since, while another session is still open.
C14_Witness ==
    \E c, d \in Clients :
        /\ detached[c] /\ c \in Range(lastPublish.before)
        /\ reqOpen[d] /\ heartbeat[d] /\ d \in Range(sseClients)

\* C15 as stated: in every state, each session whose heartbeat timer is
\* running has an entry in the registry.
C15_HeartbeatImpliesRegistered ==
    \A c \in Clients : heartbeat[c] => c \in Range(sseClients)

\* A parsed number is finite and lies in lo..hi.
InRange(a, lo, hi) == ~a.nan /\ lo * a.den <= a.num /\ a.num <= hi * a.den

\* a = b for parsed numbers.
NumEq(a, b) == ~a.nan /\ ~b.nan /\ a.num * b.den = b.num * a.den

\* floor(t / 10^6) when t > 10^15 and t otherwise, in exact arithmetic.
TenPow15 == Digits(<<1, 0, 0, 0, 0, 0, 0, 0, 0, 0, 0, 0, 0, 0, 0, 0>>)
Milliseconds(t) == IF DecLess(TenPow15, t) THEN DecDivMillion(t) ELSE t

\* C16 as stated: every event the decoder returns has a finite latitude in
\* [-90, 90] and a finite longitude in [-180, 180].
C16_EventsInRange ==
    event # <<>> => InRange(event.lat, -90, 90) /\ InRange(event.lon, -180, 180)

\* C17: when the message handler receives a frame that decodes to no event,
\* the store, the lifetime counter, the registry, every session's stream and
\* the connection state stay as they were, and no exception escapes.
C17_DroppedFrameNoEffect ==
    [][frame' # frame /\ event' = <<>> =>
          UNCHANGED <<storeVars, sseVars, connVars, crashed>>]_vars

\* C17 witness: the last frame received carried no strike, while the store
\* held a strike, a session was registered and the socket was open.
C17_Witness ==
    /\ frame # <<>> /\ event = <<>>
    /\ Len(strikes) >= 1
    /\ Len(sseClients) >= 1
    /\ \E s \in Sockets : sock[s] = "OPEN"

\* C18 as stated: for a record with latitude and longitude in range, the
\* decoder returns the record's latitude and longitude, and its time in
\* milliseconds, whatever delimiters were substituted and noise inserted.
C18_RoundTrip ==
    record # <<>> /\ record.lat.value \in ValidLats /\ record.lon.value \in ValidLons =>
        /\ event # <<>>
        /\ NumEq(event.lat, record.lat.value)
        /\ NumEq(event.lon, record.lon.value)
        /\ event.time = Milliseconds(stripZeros(record.time))

\* C19 as stated: the event's time is floor(t / 10^6) when the extracted
\* timestamp t (rawTime) exceeds 10^15, and t otherwise.
C19_TimeNormalized ==
    record # <<>> /\ event # <<>> =>
        event.time = Milliseconds(parseInt(record.time))

\* C20: every session receives its live events in decode order (a strike's
\* id is its rank in decode order): of two live events in a session's
\* stream, the one decoded first comes first.
C20_DecodeOrder ==
    \A c \in Clients :
        \A i, j \in 1..Len(out[c]) :
            i < j /\ IsStrike(out[c][i]) /\ IsStrike(out[c][j]) =>
                out[c][i].id < out[c][j].id

\* C20 witness: two sessions have both received the same two strikes, one of
\* them after a history message.
C20_Witness ==
    \E c, d \in Clients :
        /\ c # d /\ StrikeCount(c) >= 2 /\ StrikeCount(d) >= 2
        /\ Len(out[c]) = 2 + StrikeCount(c)
        /\ out[c][Len(out[c])] = out[d][Len(out[d])]
        /\ out[c][Len(out[c]) - 1] = out[d][Len(out[d]) - 1]

\* C21: currentServerIndex counts the attempts made so far, so the k-th
\* attempt is the step that takes it from k to k + 1. Every socket created
\* is created by such a step and gets endpoint k mod N; a step taken while
\* the connector is connecting or connected (where a connect call is a
\* no-op) leaves the selection where it was.
C21_RoundRobin ==
    /\ [][\A s \in Sockets :
            sock[s] = "CLOSED" /\ sock'[s] = "CONNECTING" =>
                /\ currentServerIndex' = currentServerIndex + 1
                /\ sockUrl'[s] = currentServerIndex % NumServers]_vars
    /\ [][currentServerIndex' # currentServerIndex =>
            currentServerIndex' = currentServerIndex + 1]_vars
    /\ [][ConnectIsNoop(Conn) => currentServerIndex' = currentServerIndex]_vars

\* C21 witness: more attempts than endpoints were made, and the socket of
\* the last one, still connecting, uses the endpoint the selection wrapped
\* around to.
C21_Witness ==
    /\ currentServerIndex > NumServers
    /\ blitzortungWs # Null /\ isConnecting
    /\ sock[blitzortungWs] = "CONNECTING"
    /\ sockUrl[blitzortungWs] = (currentServerIndex - 1) % NumServers

\* C22 as stated: a step in which a lightning socket opens sends one
\* subscription message on that socket and none on another; a socket that
\* has not opened has been sent nothing, and no socket is sent two.
C22_OneSubscriptionPerOpen ==
    /\ [][\A s \in Sockets :
            sock[s] = "CONNECTING" /\ sock'[s] = "OPEN" =>
                /\ sent'[s] = 1
                /\ \A u \in Sockets \ {s} : sent'[u] = sent[u]]_vars
    /\ [](\A s \in Sockets : sock[s] = "CONNECTING" => sent[s] = 0)
    /\ [](\A s \in Sockets : sent[s] <= 1)

\* A connector lifecycle event: a connect attempt, or the open, error or
\* close of a socket.
LifecycleStep == currentServerIndex' # currentServerIndex \/ sock' # sock

\* C23 as stated: the lightning status is always one of disconnected,
\* connecting, connected, and changes only in lifecycle steps.
C23_StatusThreeValues ==
    /\ [](getBlitzortungStatus \in {"disconnected", "connecting", "connected"})
    /\ [][getBlitzortungStatus' # getBlitzortungStatus => LifecycleStep]_vars

\* C23 amended: the lightning status is always one of disconnected,
\* connecting, connected, closing, and changes only in lifecycle steps.
C23_StatusFourValues ==
    /\ [](getBlitzortungStatus \in {"disconnected", "connecting", "connected", "closing"})
    /\ [][getBlitzortungStatus' # getBlitzortungStatus => LifecycleStep]_vars

\* C23 witness: after a reconnect the status is closing, between an error on
\* the open socket and its close.
C23_Witness ==
    /\ getBlitzortungStatus = "closing"
    /\ currentServerIndex >= 2

\* C24: on every registry, attaching an id again after attaching it, and
\* detaching it again after detaching it, change nothing more; a call that
\* attaches a registered id or detaches an unregistered one leaves the
\* registry as it was.
C24_RegistryIdempotent ==
    /\ \A id \in RegistryIds :
          /\ addSSEClient(addSSEClient(sseClients, id), id) = addSSEClient(sseClients, id)
          /\ removeSSEClient(removeSSEClient(sseClients, id), id)
                = removeSSEClient(sseClients, id)
    /\ registryCall.op = "attach" /\ registryCall.id \in Range(registryCall.before)
          => sseClients = registryCall.before
    /\ registryCall.op = "detach" /\ registryCall.id \notin Range(registryCall.before)
          => sseClients = registryCall.before

\* C24 witness: an id already in a registry of several ids, and not the last
\* one attached, was attached again.
C24_Witness ==
    /\ registryCall.op = "attach"
    /\ Len(registryCall.before) >= 3
    /\ registryCall.id \in Range(registryCall.before)
    /\ registryCall.before[Len(registryCall.before)] # registryCall.id

\* The strikes of a sequence stamped later than lo and not later than hi.
StampedIn(arr, lo, hi) == {i \in 1..Len(arr) : lo < arr[i].time /\ arr[i].time <= hi}

\* A step in which a lightning.recent query is answered.
QueryStep == response' # response

\* C25 as stated: a query's last-minute count is the number of buffered
\* strikes stamped within the 60 seconds before the time of the query, and
\* the buffer keeps the older ones.
C25_LastMinuteWindow ==
    [][QueryStep =>
          /\ response'.lastMinute
                = Cardinality(StampedIn(strikes, response'.at - 60000, response'.at))
          /\ strikes' = strikes]_vars

\* The last k elements of a sequence, all of it when it has fewer.
LastUpTo(arr, k) == LastOf(arr, Min(k, Len(arr)))

\* C26: a lightning.recent query answers with the last min(RecentN, size)
\* buffered strikes, the lifetime total and the last-minute count of the
\* store as it is at the query, and leaves the buffer and the lifetime
\* counter as they were.
C26_RecentQuery ==
    [][QueryStep =>
          /\ response'.strikes = LastUpTo(strikes, RecentN)
          /\ response'.total = total
          /\ response'.lastMinute
                = Cardinality({i \in 1..Len(strikes) :
                                  strikes[i].time > response'.at - 60000})
          /\ strikes' = strikes
          /\ total' = total]_vars

\* C26 witness: after the buffer overflowed a query was answered with fewer
\* strikes than are buffered, a total larger than the buffer, and a
\* last-minute count that leaves out a buffered strike.
C26_Witness ==
    /\ response.total = total
    /\ total > maxSize
    /\ Len(strikes) > RecentN
    /\ response.strikes = LastUpTo(strikes, RecentN)
    /\ response.lastMinute \in 1..(Len(strikes) - 1)

\* C27: while AISSTREAM_API_KEY is not set no vessel socket has been created,
\* no reconnect is scheduled, and getAISStreamStatus reports disabled.
C27_DisabledWithoutKey ==
    ~apiKey =>
        /\ \A s \in Sockets : aisSock[s] = "CLOSED"
        /\ aisWs = Null
        /\ aisAttempts = 0
        /\ aisTimers = {}
        /\ aisReconnectTimer = Null
        /\ getAISStreamStatus = "disabled"

\* C27 witness: connectAISStream has been called without a key.
C27_Witness == ~apiKey /\ aisCalled

\* C28: while the astronaut is paused its position and progress do not
\* change, and at the step that ends the pause the travel clock stands at
\* the progress the astronaut had when the pause began.
C28_PauseFreezesTravel ==
    /\ [][pausedRef => progress' = progress /\ leg' = leg]_vars
    /\ [][pausedRef /\ ~pausedRef' => now' - travelStartRef' = progress]_vars

\* C29: a step that takes the fuel level from above 20 to 20 or below ends
\* with the quiz modal open.
C29_QuizAtTwenty == [][fuel > 20 /\ fuel' <= 20 => showQuizModal']_vars

\* C30: while fuel is 0 the astronaut's position and progress do not change.
C30_GroundedAtZero == [][fuel = 0 => progress' = progress /\ leg' = leg]_vars

\* The rewards the README gives: Easy +10, Medium +20, Hard +35.
ReadmeRewards == [d \in Difficulties |->
                    IF d = "easy" THEN 10 ELSE IF d = "medium" THEN 20 ELSE 35]

Rank(d) == IF d = "easy" THEN 1 ELSE IF d = "medium" THEN 2 ELSE 3

\* Of two passed gradings the one at the harder difficulty grants more.
HarderGrantsMore(g, h) ==
    g.passed /\ h.passed /\ Rank(g.difficulty) < Rank(h.difficulty) =>
        g.fuelReward < h.fuelReward

\* C32: of any two gradings answered one after the other that both passed,
\* the one at the harder difficulty grants strictly more fuel, with or
\* without a grading key.
C32_HarderGrantsMore ==
    [][HarderGrantsMore(lastGrade, lastGrade') /\ HarderGrantsMore(lastGrade', lastGrade)]_vars

\* C38: fuel stays within 0..100, the rendered state shows the level of
\* fuelRef, and isLow and isCritical are fuel < 20 and fuel < 10.
C38_FuelFlags ==
    /\ fuel \in 0..MaxFuel
    /\ fuelState.fuel = fuel
    /\ fuelState.isLow = (fuel < 20)
    /\ fuelState.isCritical = (fuel < 10)

\* C38 witness: after a quiz refuel and fuel ticks the level is low but not
\* critical.
C38_Witness ==
    /\ lastGrade.n >= 1
    /\ lastGrade.passed
    /\ fuel \in 10..19
    /\ fuelState.isLow
    /\ ~fuelState.isCritical

\* C39: the modal is opened by the effect at most once between two times at
\* which fuel is not critical.
C39_OneAutoOpenPerEpisode == autoOpens <= 1

\* C39 witness: the modal was opened by the effect and has been closed,
\* and fuel is still critical.
C39_Witness ==
    /\ autoOpens = 1
    /\ ~showQuizModal
    /\ fuelState.isCritical

\* C40: the step that answers a grading raises fuel by the returned reward,
\* capped at 100, when the result is passed and leaves it unchanged
\* otherwise; a submission and a lost request leave it unchanged; and no
\* submission is answered twice.
C40_RefuelOnlyWhenPassed ==
    /\ [][lastGrade'.n # lastGrade.n =>
            fuel' = IF lastGrade'.passed
                    THEN Min(MaxFuel, fuel + lastGrade'.fuelReward)
                    ELSE fuel]_vars
    /\ [][Len(inflight') # Len(inflight) /\ lastGrade'.n = lastGrade.n => fuel' = fuel]_vars
    /\ [](lastGrade.n + Len(inflight) <= submitted)

\* C40 witness: two gradings were answered, the last one passed and its
\* reward was cut at 100.
C40_Witness ==
    /\ lastGrade.n >= 2
    /\ lastGrade.passed
    /\ fuel = MaxFuel
    /\ inflight = <<>>

\* C33: a satellites.tracked call made with the key while the cache is less
\* than 30 s old is answered with the cached list and issues no upstream
\* request; upstream requests are issued only when there is no cache or the
\* cache is 30 s old or older, and then by every such call.
C33_CacheForThirtySeconds ==
    /\ [][satQueries' # satQueries /\ n2yoKey' = "set" /\ satCache # NoCache
            /\ satNow - satCache.ts < 3 =>
              /\ upstream' = upstream
              /\ satResponse' = [available |-> TRUE, satellites |-> satCache.data,
                                 threw |-> FALSE]]_vars
    /\ [][upstream' # upstream => satCache = NoCache \/ satNow - satCache.ts >= 3]_vars
    /\ [][satQueries' # satQueries /\ n2yoKey' = "set"
            /\ (satCache = NoCache \/ satNow - satCache.ts >= 3) =>
              upstream' = upstream + 1]_vars

\* C33 witness: a call made 20 s after the list was cached was answered
\* with the cached list, and one round of upstream requests has been issued.
C33_Witness ==
    /\ satCache # NoCache
    /\ satNow - satCache.ts = 2
    /\ satQueries >= 2
    /\ upstream = 1
    /\ satCalls = 0
    /\ satResponse.satellites = satCache.data
    /\ satResponse.satellites.at < satNow

\* C34: with N2YO_API_KEY unset every satellites.tracked call returns
\* available = false with an empty list, does not throw, and no upstream
\* request is issued.
C34_UnavailableWithoutKey ==
    n2yoKey = "unset" =>
        /\ upstream = 0
        /\ satCalls = 0
        /\ satCache = NoCache
        /\ satResponse = [available |-> FALSE, satellites |-> <<>>, threw |-> FALSE]

\* C34 witness: satellites.tracked has been called twice without the key.
C34_Witness == n2yoKey = "unset" /\ satQueries >= 2 /\ satNow > 0


\* A step in which the vessel handler stores a report.
VesselStoreStep == updates' # updates

\* How often a value occurs in a sequence.
Occurrences(seq, x) == Cardinality({i \in 1..Len(seq) : seq[i] = x})

\* C35: each decoded lightning frame is added to the store once and published
\* once in the same handler run, the add first: when the live writes are made
\* the store holds the event, nothing is published that was not just stored,
\* and the lifetime counter equals the number of strikes published so far.
C35_StoredThenPublished ==
    [][/\ (added' # added) <=> PublishStep
       /\ PublishStep =>
              LET strike == lastPublish'.strike
              IN  /\ event' # <<>>
                  /\ added' = Append(added, strike)
                  /\ Occurrences(strikes', strike) = 1
                  /\ Occurrences(added', strike) = 1
                  /\ total' = total + 1
                  /\ total' = Len(added')
                  /\ \A c \in Clients :
                         \/ out'[c] = out[c]
                         \/ out'[c] = Append(out[c], StrikeMsg(strike))]_vars

\* Two frames were handled while a subscriber was attached, and the
\* subscriber holds the last strike as a live event.
C35_Witness ==
    /\ Len(added) >= 2
    /\ total = Len(added)
    /\ lastPublish.strike = added[Len(added)]
    /\ \E c \in Range(lastPublish.before) :
           /\ out[c] # <<>>
           /\ out[c][Len(out[c])] = StrikeMsg(lastPublish.strike)

\* The vessel handler does the same with its store: a report is stored once,
\* under its MMSI, and published in the same handler run.
VesselStoredThenPublished ==
    [][/\ (aisLastPublish' # aisLastPublish) => VesselStoreStep
       /\ VesselStoreStep =>
              LET vessel == aisLastPublish'.vessel
              IN  /\ updates' = updates + 1
                  /\ vessel # <<>>
                  /\ Occurrences(vessels', vessel) = 1
                  /\ \A c \in Clients :
                         \/ aisOut'[c] = aisOut[c]
                         \/ aisOut'[c] = Append(aisOut[c], VesselMsg(vessel))]_vars


\* The id of the newest strike in the history snapshot written to session c,
\* 0 when the store was empty and no history was written.
SnapshotEnd(c) ==
    IF Len(out[c]) >= 2 /\ IsHistory(out[c][2])
    THEN out[c][2].strikes[Len(out[c][2].strikes)].id
    ELSE 0

\* C36: a registered subscriber (attached, not detached, no write to it
\* failed) has been written, as live events and in order, every strike
\* recorded since its history snapshot was taken: none is missing between
\* the snapshot and the newest strike.
C36_NoEventLost ==
    \A c \in Range(sseClients) :
        LET live == SelectSeq(out[c], IsStrike)
            snap == SnapshotEnd(c)
        IN  /\ Len(live) = Len(added) - snap
            /\ \A i \in 1..Len(live) : live[i] = StrikeMsg(added[snap + i])

\* A subscriber attached to a non-empty store, strikes were recorded
\* afterwards, one of them past the history window, and it is still
\* registered.
C36_Witness ==
    \E c \in Range(sseClients) :
        /\ SnapshotEnd(c) >= 1
        /\ Len(added) >= SnapshotEnd(c) + 2
        /\ StrikeCount(c) >= 2


\* The frames the statement of C37 has stored: a PositionReport with a
\* non-empty MMSI, a latitude in [-90, 90], a longitude in [-180, 180], not
\* within 0.01 degrees of (0, 0) in both coordinates.
ValidReport(msg) ==
    /\ msg # NotJson
    /\ msg.MessageType = "PositionReport"
    /\ LET lat == Coalesce(msg.Latitude, msg.MetaLatitude)
           lon == Coalesce(msg.Longitude, msg.MetaLongitude)
           mmsi == Coalesce(msg.MMSI, Coalesce(msg.UserID, <<<<>>>>))[1]
       IN  /\ mmsi # <<>>
           /\ lat # Absent /\ ~lat[1].nan
           /\ lon # Absent /\ ~lon[1].nan
           /\ ~NumLess(lat[1], -90) /\ ~NumGreater(lat[1], 90)
           /\ ~NumLess(lon[1], -180) /\ ~NumGreater(lon[1], 180)
           /\ ~(NearZero(lat[1]) /\ NearZero(lon[1]))

\* C37: the vessel handler stores and broadcasts a frame exactly when it is
\* a valid report; any other frame changes neither the store nor what any
\* subscriber has been written.
C37_StoresExactlyValidReports ==
    [][frame' # frame =>
         IF ValidReport(frame')
         THEN /\ updates' = updates + 1
              /\ aisLastPublish'.vessel.mmsi \in Keys(vessels')
              /\ \A c \in Range(aisClients) :
                     \/ aisOut'[c] = Append(aisOut[c], VesselMsg(aisLastPublish'.vessel))
                     \/ c \notin Range(aisClients')
         ELSE UNCHANGED <<vessels, aisOut, aisClients, updates>>]_vars

\* The same with the handler's own test on the coordinates: a report whose
\* latitude or longitude is exactly 0 is dropped as well.
StoresExactlyNonZeroReports ==
    [][frame' # frame =>
         IF /\ ValidReport(frame')
            /\ ~Falsy(Coalesce(frame'.Latitude, frame'.MetaLatitude))
            /\ ~Falsy(Coalesce(frame'.Longitude, frame'.MetaLongitude))
         THEN /\ updates' = updates + 1
              /\ aisLastPublish'.vessel.mmsi \in Keys(vessels')
              /\ \A c \in Range(aisClients) :
                     \/ aisOut'[c] = Append(aisOut[c], VesselMsg(aisLastPublish'.vessel))
                     \/ c \notin Range(aisClients')
         ELSE UNCHANGED <<vessels, aisOut, aisClients, updates>>]_vars

====
